---- MODULE Spec2Model ----
(***************************************************************************)
(* Event-driven SRE platform as state machines:                            *)
(*   - the alert_ingest Lambda handler                                     *)
(*     (terraform/lambda/alert_ingest/handler.py): one invocation decodes  *)
(*     the webhook envelope, then for every alert of the batch normalizes  *)
(*     it and issues four sink calls (DynamoDB put_item, EventBridge       *)
(*     put_events, SNS publish, Step Functions start_execution), each of   *)
(*     which may raise;                                                    *)
(*   - the runbook_action Lambda handler                                   *)
(*     (terraform/lambda/runbook_action/handler.py) with the parameter     *)
(*     store and the deployment it changes, and the workflow that retries  *)
(*     it;                                                                 *)
(*   - the checkout service (apps/checkout/app.py) and its metrics.        *)
(***************************************************************************)
EXTENDS Integers, Sequences, FiniteSets, TLC

\* ------------------------------------------------------------------ bounds
MaxAlerts == 2          \* longest alerts array of one webhook body
MaxInvocations == 2     \* ingest invocations in one behaviour
MaxClock == 1           \* largest value of int(time.time())

\* ------------------------------------------------- JSON values (tagged)
\* Every JSON value is a record with a tag t, so that values of different
\* JSON types can be compared.  Absent is "the key is not in the dict".
Absent == [t |-> "absent"]
Null == [t |-> "null"]
Str(s) == [t |-> "str", v |-> s]
Num(s) == [t |-> "num", v |-> s]

IsStr(x) == x.t = "str"
IsDict(x) == x.t = "obj"

\* dict.get(key, default): the default only replaces a missing key; a key
\* that is present with value null yields None.
Get(field, default) == IF field = Absent THEN default ELSE field

Labels(alertname, severity, service) ==
    [t |-> "obj", alertname |-> alertname, severity |-> severity, service |-> service]
EmptyLabels == Labels(Absent, Absent, Absent)

Annotations(description) == [t |-> "obj", description |-> description]
EmptyAnnotations == Annotations(Absent)

RawAlert(labels, annotations, status) ==
    [labels |-> labels, annotations |-> annotations, status |-> status]

\* The raw alert objects a webhook body may hold: every field present,
\* empty labels and annotations without status, no labels and no
\* annotations, null labels and annotations, a severity that is not a
\* string beside a missing service label.
RawAlerts ==
    { RawAlert(Labels(Str("CheckoutHighErrorRate"), Str("critical"), Str("checkout")),
               Annotations(Str("High error rate detected")), Str("firing")),
      RawAlert(EmptyLabels, EmptyAnnotations, Absent),
      RawAlert(Absent, Absent, Str("resolved")),
      RawAlert(Null, Null, Str("firing")),
      RawAlert(Labels(Str("CustomAlert"), Num("5"), Absent),
               EmptyAnnotations, Str("resolved")) }

RECURSIVE SeqsUpTo(_, _)
SeqsUpTo(S, n) ==
    IF n = 0 THEN { <<>> }
    ELSE LET shorter == SeqsUpTo(S, n - 1)
         IN  shorter \cup { Append(s, x) : s \in { q \in shorter : Len(q) = n - 1 }, x \in S }

\* ------------------------------------------------------ webhook envelope
\* Body texts: the empty string, a text that is not JSON, and JSON texts.
EmptyText == [k |-> "empty"]
GarbageText == [k |-> "garbage"]
JsonText(doc) == [k |-> "json", doc |-> doc]

NonObjectDoc == [k |-> "nonobject"]                       \* e.g. null
ObjectDoc(alerts) == [k |-> "object", alerts |-> alerts]  \* {"alerts": ...}
Arr(items) == [t |-> "arr", items |-> items]

EmptyObjectText == JsonText(ObjectDoc(Absent))            \* the text "{}"

\* the texts without alerts, and the texts that hold a batch
PlainTexts ==
    { EmptyText, GarbageText, JsonText(NonObjectDoc), EmptyObjectText,
      JsonText(ObjectDoc(Null)), JsonText(ObjectDoc(Arr(<< >>))) }

BatchTexts ==
    { JsonText(ObjectDoc(Arr(s))) : s \in SeqsUpTo(RawAlerts, MaxAlerts) \ { << >> } }

Texts == PlainTexts \cup BatchTexts

\* event["body"]: missing, or a text sent as it is, or its base64 encoding
\* (the base64 encoding of the empty text is the empty text).
NoBody == [k |-> "absent"]
Plain(text) == [k |-> "plain", text |-> text]
B64(text) == [k |-> "b64", text |-> text]

Bodies ==
    { NoBody } \cup { Plain(x) : x \in Texts } \cup { B64(x) : x \in Texts \ { EmptyText } }

Events == { [body |-> b, isBase64Encoded |-> f] : b \in Bodies, f \in BOOLEAN }

\* event.get("body", "{}")
EventBody(ev) == IF ev.body = NoBody THEN Plain(EmptyObjectText) ELSE ev.body

\* variant: an encoded body is handed on as it arrived
B64DecodeSkipped(body) ==
    IF body.k = "b64" THEN { [ok |-> TRUE, text |-> GarbageText] }
    ELSE IF body.text \in { EmptyText, EmptyObjectText }
         THEN { [ok |-> TRUE, text |-> EmptyText] }
         ELSE { [ok |-> FALSE, error |-> "binascii.Error"],
                [ok |-> FALSE, error |-> "UnicodeDecodeError"],
                [ok |-> TRUE, text |-> GarbageText] }

\* base64.b64decode(body).decode("utf-8"): the set of possible outcomes.
\* Characters outside the base64 alphabet are discarded, so "" and "{}"
\* decode to ""; any other text that is not a base64 encoding raises
\* binascii.Error or UnicodeDecodeError, or decodes to a non-JSON text.
B64Decode(body) ==
    IF body.k = "b64" THEN { [ok |-> TRUE, text |-> body.text] }
    ELSE IF body.text \in { EmptyText, EmptyObjectText }
         THEN { [ok |-> TRUE, text |-> EmptyText] }
         ELSE { [ok |-> FALSE, error |-> "binascii.Error"],
                [ok |-> FALSE, error |-> "UnicodeDecodeError"],
                [ok |-> TRUE, text |-> GarbageText] }

\* A body used without decoding: base64 text is not JSON.
AsText(body) == IF body.k = "b64" THEN GarbageText ELSE body.text

\* variant: the empty body is handed to the parser as it is
BodyOrDefaultIdentity(text) == text

\* body or "{}"
BodyOrDefault(text) == IF text = EmptyText THEN EmptyObjectText ELSE text

\* variant: a text that does not parse is taken as the empty object
JsonLoadsLenient(text) ==
    IF text.k = "json" THEN [ok |-> TRUE, doc |-> text.doc]
    ELSE [ok |-> TRUE, doc |-> ObjectDoc(Absent)]

\* json.loads(text)
JsonLoads(text) ==
    IF text.k = "json" THEN [ok |-> TRUE, doc |-> text.doc]
    ELSE [ok |-> FALSE, error |-> "JSONDecodeError"]

\* json.dumps(x): a text that holds x
JsonDumps(x) == [k |-> "json", doc |-> x]

\* ------------------------------------------------------ process config
BUS == "test-event-bus"
TABLE == "test-incidents"
RUNBOOK_ARN == "arn:runbook"
TOPIC == "arn:topic"
RUNBOOK_ACTION_ARN == "arn:action"

\* ------------------------------------------------- the notification text
\* A string of one character repeated: a text too long to be written out.
LongStr(char, times) == [t |-> "str", v |-> char, times |-> times]

\* len(s) of a string value
StrLen(x) == IF "times" \in DOMAIN x THEN x.times * Len(x.v) ELSE Len(x.v)

\* line 27: str(uuid.uuid4()) has 36 characters
UuidLen == 36
\* line 23: int(time.time()) has ten digits
TimestampLen == 10

\* the length of the text json.dumps makes of a scalar
ScalarLen(x) ==
    CASE x.t = "str" -> StrLen(x) + 2
      [] x.t = "num" -> Len(x.v)
      [] x.t = "null" -> 4

\* the length of one member line of an object printed with indent=2 at
\* the given depth, without the comma and the line break: the indent, the
\* quoted key, ": " and the value
MemberLen(key, valueLen, depth) == 2 * depth + Len(key) + 2 + 2 + valueLen

RECURSIVE SumSeq(_)
SumSeq(q) == IF q = << >> THEN 0 ELSE q[1] + SumSeq(Tail(q))

\* the length of an object whose member lines have the given lengths:
\* "{}" when empty, otherwise "{", a line break before every member, a
\* comma between members, a line break, the indent and "}"
ObjectLen(members, depth) ==
    IF members = << >> THEN 2
    ELSE 1 + SumSeq(members) + Len(members) + (Len(members) - 1) + 1 + 2 * (depth - 1) + 1

\* the lengths of the member lines of a dict of string values, for the
\* keys it holds, in the order given
MemberLens(dict, keys, depth) ==
    LET present == SelectSeq(keys, LAMBDA key : dict[key] # Absent)
    IN  [ i \in DOMAIN present |-> MemberLen(present[i], ScalarLen(dict[present[i]]), depth) ]

\* the length of a value that is a dict of scalars, or null
DictLen(dict, keys, depth) ==
    IF dict.t = "obj" THEN ObjectLen(MemberLens(dict, keys, depth + 1), depth + 1) ELSE 4

\* len(json.dumps(n, indent=2)) for an incident n
PrettyLen(n) ==
    ObjectLen(<< MemberLen("incident_id", UuidLen + 2, 1),
                 MemberLen("timestamp", TimestampLen, 1),
                 MemberLen("status", ScalarLen(n.status), 1),
                 MemberLen("severity", ScalarLen(n.severity), 1),
                 MemberLen("service", ScalarLen(n.service), 1),
                 MemberLen("alertname", ScalarLen(n.alertname), 1),
                 MemberLen("labels",
                           DictLen(n.labels, << "alertname", "severity", "service" >>, 1), 1),
                 MemberLen("annotations", DictLen(n.annotations, << "description" >>, 1), 1),
                 MemberLen("runbook_action_arn", Len(RUNBOOK_ACTION_ARN) + 2, 1) >>, 1)

\* json.dumps(x, indent=2): a text that holds x, of the length above
JsonDumpsIndent(x) == [k |-> "json", doc |-> x, indent |-> 2, len |-> PrettyLen(x)]

\* line 67: the limit of the slice
MessageLimit == 240000

\* text[:240000]: the text itself when it is no longer than the limit,
\* otherwise its first 240000 characters, which are no JSON text
Slice240000(text) ==
    IF text.len <= MessageLimit THEN text
    ELSE [ text EXCEPT !.k = "prefix", !.len = MessageLimit ]

\* payload.get("alerts", []) followed by iter(alerts)
AlertsOf(doc) ==
    IF doc.k # "object" THEN [ok |-> FALSE, error |-> "AttributeError"]
    ELSE LET alerts == Get(doc.alerts, Arr(<<>>))
         IN  IF alerts.t = "arr" THEN [ok |-> TRUE, items |-> alerts.items]
             ELSE [ok |-> FALSE, error |-> "TypeError"]

\* The errors of the envelope decoding steps (all are ValueError classes).
DecodeErrors == { "JSONDecodeError", "binascii.Error", "UnicodeDecodeError" }

\* --------------------------------------------------------- normalization
\* variant: an identifier that does not depend on the call
Uuid4Constant(inv, n) == << 0, 0 >>

\* uuid.uuid4(): a value never returned before, named here by the
\* invocation that draws it and the number of uuid4() calls that
\* invocation made before.
Uuid4(inv, n) == << inv, n >>

\* variant: only the first alert of an invocation keeps its own status
NormalizedFirstStatusOnly(incident_id, now, a, labels) ==
    [ incident_id |-> incident_id,
      timestamp |-> now,
      status |-> IF incident_id[2] = 0 THEN Get(a.status, Str("firing")) ELSE Str("firing"),
      severity |-> Get(labels.severity, Str("ticket")),
      service |-> Get(labels.service, Str("unknown")),
      alertname |-> Get(labels.alertname, Str("UnknownAlert")),
      labels |-> labels,
      annotations |-> Get(a.annotations, EmptyAnnotations),
      runbook_action_arn |-> RUNBOOK_ACTION_ARN ]

\* variant: one missing label makes every label field take its default
NormalizedAllOrNothing(incident_id, now, a, labels) ==
    LET complete == Absent \notin { labels.severity, labels.service, labels.alertname }
    IN  [ incident_id |-> incident_id,
          timestamp |-> now,
          status |-> Get(a.status, Str("firing")),
          severity |-> IF complete THEN labels.severity ELSE Str("ticket"),
          service |-> IF complete THEN labels.service ELSE Str("unknown"),
          alertname |-> IF complete THEN labels.alertname ELSE Str("UnknownAlert"),
          labels |-> labels,
          annotations |-> Get(a.annotations, EmptyAnnotations),
          runbook_action_arn |-> RUNBOOK_ACTION_ARN ]

Normalized(incident_id, now, a, labels) ==
    [ incident_id |-> incident_id,
      timestamp |-> now,
      status |-> Get(a.status, Str("firing")),
      severity |-> Get(labels.severity, Str("ticket")),
      service |-> Get(labels.service, Str("unknown")),
      alertname |-> Get(labels.alertname, Str("UnknownAlert")),
      labels |-> labels,
      annotations |-> Get(a.annotations, EmptyAnnotations),
      runbook_action_arn |-> RUNBOOK_ACTION_ARN ]

\* str.upper()
Upper(s) ==
    CASE s = "critical" -> "CRITICAL"
      [] s = "warning" -> "WARNING"
      [] s = "ticket" -> "TICKET"
      [] OTHER -> s

\* how an f-string renders a value
Fmt(x) == IF x.t \in { "str", "num" } THEN x.v ELSE "None"

Subject(n) ==
    "[" \o Upper(n.severity.v) \o "] " \o Fmt(n.service) \o " - "
        \o Fmt(n.alertname) \o " (" \o Fmt(n.status) \o ")"

\* ------------------------------------------------------------- the sinks
\* variant: the workflow is started before the incident is stored
SinkOrderWorkflowFirst == << "start_execution", "put_item", "put_events", "publish" >>

\* The order in which one loop iteration calls the sinks.
SinkOrder == << "put_item", "put_events", "publish", "start_execution" >>

Sinks == { SinkOrder[k] : k \in 1..Len(SinkOrder) }

PosOf(sink) == CHOOSE k \in 1..Len(SinkOrder) : SinkOrder[k] = sink

\* the statement that follows the call of a sink that returned
After(sink) == IF PosOf(sink) < Len(SinkOrder) THEN SinkOrder[PosOf(sink) + 1] ELSE "append"

\* What a sink call can do: return, or raise; put_events can also return
\* normally with FailedEntryCount = 1 in its response.
Outcomes(sink) ==
    IF sink = "put_events" THEN { "ok", "failed_entry", "raise" } ELSE { "ok", "raise" }

\* variant: the exception of a sink call is caught and dropped
RaisesSwallowed(outcome) == FALSE

\* The handler has no try/except and never looks at a response: a call
\* ends the invocation exactly when it raises.
Raises(outcome) == outcome = "raise"

PutItemArg(n) ==
    [ TableName |-> TABLE,
      Item |-> [ incident_id |-> n.incident_id, ts |-> n.timestamp,
                 service |-> n.service, alertname |-> n.alertname,
                 severity |-> n.severity, status |-> n.status, payload |-> n ] ]

PutEventsArg(n) ==
    [ Entries |-> << [ EventBusName |-> BUS, Source |-> "prometheus.alertmanager",
                       DetailType |-> "SREAlert", Detail |-> JsonDumps(n) ] >> ]

\* variant: the message is published whole
PublishArgUncut(n) ==
    [ TopicArn |-> TOPIC, Subject |-> Subject(n), Message |-> JsonDumpsIndent(n) ]

\* lines 64-68
PublishArg(n) ==
    [ TopicArn |-> TOPIC, Subject |-> Subject(n),
      Message |-> Slice240000(JsonDumpsIndent(n)) ]

\* variant: the workflow is started with the alert as it was received
StartExecutionArgLabelsOnly(n) ==
    [ stateMachineArn |-> RUNBOOK_ARN,
      input |-> JsonDumps([ n EXCEPT !.severity = Get(n.labels.severity, Absent),
                                     !.service = Get(n.labels.service, Absent),
                                     !.alertname = Get(n.labels.alertname, Absent) ]) ]

StartExecutionArg(n) ==
    [ stateMachineArn |-> RUNBOOK_ARN, input |-> JsonDumps(n) ]

\* the incident_id a sink call carries
CarriedId(c) ==
    CASE c.sink = "put_item" -> c.arg.Item.incident_id
      [] c.sink = "put_events" -> c.arg.Entries[1].Detail.doc.incident_id
      [] c.sink = "publish" -> c.arg.Message.doc.incident_id
      [] c.sink = "start_execution" -> c.arg.input.doc.incident_id

\* ----------------------------------------------------------------- state
VARIABLES
    pc,           \* position of the handler: idle, for, a sink, append, returned, raised
    event,        \* the event of the current invocation
    now,          \* int(time.time()) of the current invocation
    alerts,       \* payload.get("alerts", [])
    idx,          \* 1-based position of the loop in alerts
    normalized,   \* the incident of the current iteration
    results,      \* the processed list
    response,     \* what the invocation gave its caller
    calls,        \* the sink calls issued by the current invocation, in order
    nextId,       \* number of uuid4() calls of the current invocation
    drawnBefore,  \* an earlier invocation has called uuid4()
    invocations   \* invocations started so far

ingestVars == << pc, event, now, alerts, idx, normalized, results, response, calls,
                 nextId, drawnBefore, invocations >>

\* The state of the remediation function (runbook_action/handler.py).
VARIABLES
    environ,          \* os.environ of the remediation function
    runbookPc,        \* position of lambda_handler: idle, connect, token, steps, returned, raised
    runbookEvent,     \* the event of the current remediation call
    action,           \* the resolved action
    step,             \* 1-based position in the steps of the action
    externalCalls,    \* the calls to EKS, STS signing, SSM and the cluster API, in order
    runbookResponse,  \* what the runtime got back: nothing yet, a result, an exception
    ssm,              \* the value of the audit parameter in the parameter store
    deployment,       \* the target deployment in the cluster
    k8sCall,          \* the last direct call of _k8s_request and what came of it
    attempts,         \* attempts the workflow has made of its remediation task
    startWorld,       \* parameter and deployment when the workflow took the task up
    firstRun          \* how the workflow's earlier run for the same alert ended

callerVars == << k8sCall, attempts, startWorld, firstRun >>

\* The state of the checkout service (apps/checkout/app.py).
VARIABLES
    checkoutEnv,      \* os.environ of the service when the module was loaded
    handlerPc,        \* per thread: position of checkout(): idle, chaos, sleep, decide, finally, done
    frames,           \* per thread: code, whether it slept, what it is about to return
    metrics,          \* the values of the gauge, the counters and the histogram count
    begun             \* /checkout requests begun so far

checkoutVars == << checkoutEnv, handlerPc, frames, metrics, begun >>

remediationVars == << environ, runbookPc, runbookEvent, action, step, externalCalls,
                      runbookResponse, ssm, deployment, k8sCall, attempts, startWorld,
                      firstRun >>

vars == << pc, event, now, alerts, idx, normalized, results, response, calls,
           nextId, drawnBefore, invocations,
           environ, runbookPc, runbookEvent, action, step, externalCalls,
           runbookResponse, ssm, deployment, k8sCall, attempts, startWorld, firstRun,
           checkoutEnv, handlerPc, frames, metrics, begun >>

NoEvent == [body |-> NoBody, isBase64Encoded |-> FALSE]
NoResponse == [kind |-> "none"]
Returned(list) ==
    [ kind |-> "return", statusCode |-> 200,
      headers |-> [content_type |-> "application/json"],
      body |-> JsonDumps([ok |-> TRUE, processed |-> list]) ]
Raised(err) == [kind |-> "raise", error |-> err]

NoIncident == [incident_id |-> << 0, 0 >>]

\* the values uuid4() can have returned to the earlier invocations
PriorIds ==
    IF drawnBefore
    THEN { Uuid4(i, k) : i \in 1..(invocations - 1), k \in 0..(MaxAlerts - 1) }
    ELSE {}

IngestInit ==
    /\ pc = "idle"
    /\ event = NoEvent
    /\ now = 0
    /\ alerts = << >>
    /\ idx = 1
    /\ normalized = NoIncident
    /\ results = << >>
    /\ response = NoResponse
    /\ calls = << >>
    /\ nextId = 0
    /\ drawnBefore = FALSE
    /\ invocations = 0

\* lines 15-25: the runtime calls the handler with an event; the handler
\* decodes the envelope and reads the clock.
Invoke(ev) ==
    /\ pc = "idle"
    /\ UNCHANGED remediationVars
    /\ UNCHANGED checkoutVars
    /\ invocations < MaxInvocations
    /\ invocations' = invocations + 1
    /\ event' = ev
    /\ \E t \in 0..MaxClock : now' = t
    /\ UNCHANGED << idx, normalized, results, calls, nextId, drawnBefore >>
    /\ \E dec \in (IF ev.isBase64Encoded THEN B64Decode(EventBody(ev))
                   ELSE { [ok |-> TRUE, text |-> AsText(EventBody(ev))] }) :
         IF ~dec.ok
         THEN /\ pc' = "raised"
              /\ response' = Raised([type |-> dec.error])
              /\ alerts' = << >>
         ELSE LET payload == JsonLoads(BodyOrDefault(dec.text))
              IN  IF ~payload.ok
                  THEN /\ pc' = "raised"
                       /\ response' = Raised([type |-> payload.error])
                       /\ alerts' = << >>
                  ELSE LET list == AlertsOf(payload.doc)
                       IN  IF ~list.ok
                           THEN /\ pc' = "raised"
                                /\ response' = Raised([type |-> list.error])
                                /\ alerts' = << >>
                           ELSE /\ pc' = "for"
                                /\ response' = NoResponse
                                /\ alerts' = list.items

\* lines 26-45: the loop takes the next alert and normalizes it.
Normalize ==
    /\ pc = "for"
    /\ UNCHANGED remediationVars
    /\ UNCHANGED checkoutVars
    /\ idx <= Len(alerts)
    /\ nextId' = nextId + 1
    /\ LET a == alerts[idx]
           incident_id == Uuid4(invocations, nextId)
           labels == Get(a.labels, EmptyLabels)
       IN  IF IsDict(labels)
           THEN /\ normalized' = Normalized(incident_id, now, a, labels)
                /\ pc' = SinkOrder[1]
                /\ UNCHANGED response
           ELSE /\ pc' = "raised"
                /\ response' = Raised([type |-> "AttributeError", line |-> 30])
                /\ UNCHANGED normalized
    /\ UNCHANGED << event, now, alerts, idx, results, calls, drawnBefore, invocations >>

\* One sink call: it is logged with its outcome; the handler goes on to
\* the next statement unless the call raised.
Call(sink, arg, outcome) ==
    /\ calls' = Append(calls, [ sink |-> sink, alert |-> idx, arg |-> arg, outcome |-> outcome ])
    /\ IF Raises(outcome)
       THEN /\ pc' = "raised"
            /\ response' = Raised([type |-> "SinkError", sink |-> sink, alert |-> idx])
       ELSE /\ pc' = After(sink)
            /\ UNCHANGED response
    /\ UNCHANGED << event, now, alerts, idx, normalized, results, nextId, drawnBefore,
                    invocations >>

\* lines 47-55
PutItem ==
    /\ pc = "put_item"
    /\ UNCHANGED remediationVars
    /\ UNCHANGED checkoutVars
    /\ \E o \in Outcomes("put_item") : Call("put_item", PutItemArg(normalized), o)

\* lines 57-62
PutEvents ==
    /\ pc = "put_events"
    /\ UNCHANGED remediationVars
    /\ UNCHANGED checkoutVars
    /\ \E o \in Outcomes("put_events") : Call("put_events", PutEventsArg(normalized), o)

\* lines 64-68: the subject is formatted before the call; severity.upper()
\* raises AttributeError when severity is not a string.
Publish ==
    /\ pc = "publish"
    /\ UNCHANGED remediationVars
    /\ UNCHANGED checkoutVars
    /\ IF IsStr(normalized.severity)
       THEN \E o \in Outcomes("publish") : Call("publish", PublishArg(normalized), o)
       ELSE /\ pc' = "raised"
            /\ response' = Raised([type |-> "AttributeError", line |-> 66])
            /\ UNCHANGED << event, now, alerts, idx, normalized, results, calls,
                            nextId, drawnBefore, invocations >>

\* lines 70-73
StartExecution ==
    /\ pc = "start_execution"
    /\ UNCHANGED remediationVars
    /\ UNCHANGED checkoutVars
    /\ \E o \in Outcomes("start_execution") :
         Call("start_execution", StartExecutionArg(normalized), o)

\* line 75
AppendResult ==
    /\ pc = "append"
    /\ UNCHANGED remediationVars
    /\ UNCHANGED checkoutVars
    /\ results' = Append(results, [ incident_id |-> normalized.incident_id,
                                    alertname |-> normalized.alertname ])
    /\ idx' = idx + 1
    /\ pc' = "for"
    /\ UNCHANGED << event, now, alerts, normalized, response, calls, nextId, drawnBefore,
                    invocations >>

\* lines 77-81
Return ==
    /\ pc = "for"
    /\ UNCHANGED remediationVars
    /\ UNCHANGED checkoutVars
    /\ idx > Len(alerts)
    /\ pc' = "returned"
    /\ response' = Returned(results)
    /\ UNCHANGED << event, now, alerts, idx, normalized, results, calls, nextId, drawnBefore,
                    invocations >>

\* the frame of an invocation that has ended is dropped
FrameGone ==
    /\ pc' = "idle"
    /\ event' = NoEvent
    /\ now' = 0
    /\ alerts' = << >>
    /\ idx' = 1
    /\ normalized' = NoIncident
    /\ results' = << >>
    /\ response' = NoResponse
    /\ calls' = << >>
    /\ nextId' = 0
    /\ drawnBefore' = (drawnBefore \/ nextId > 0)
    /\ UNCHANGED invocations

\* The handler's frame is gone once its result or its exception has been
\* handed to the runtime, which then waits for the next event.
Deliver ==
    /\ pc \in { "returned", "raised" }
    /\ UNCHANGED remediationVars
    /\ UNCHANGED checkoutVars
    /\ FrameGone

\* ====================================================== remediation function
\* src/terraform/lambda/runbook_action/handler.py

\* os.environ of the function: nothing set; an empty cluster name; only the
\* cluster name set; every variable set.
Environ(cluster, region, aws_region, namespace, target, param) ==
    [ CLUSTER_NAME |-> cluster, REGION |-> region, AWS_REGION |-> aws_region,
      TARGET_NAMESPACE |-> namespace, TARGET_DEPLOYMENT |-> target,
      DEGRADED_PARAM |-> param ]
Environs ==
    { Environ(Absent, Absent, Absent, Absent, Absent, Absent),
      Environ(Str(""), Absent, Str("eu-west-1"), Absent, Absent, Absent),
      Environ(Str("test-cluster"), Absent, Absent, Absent, Absent, Absent),
      Environ(Str("test-cluster"), Str("us-west-2"), Str("eu-west-1"),
              Str("test-namespace"), Str("test-deployment"), Str("/test/degraded_mode")) }

\* Python truth value of a JSON value: None, "", 0 and {} are false.
Truthy(x) ==
    CASE x.t \in { "absent", "null" } -> FALSE
      [] x.t = "str" -> x.v # ""
      [] x.t = "num" -> x.v # "0"
      [] x.t = "obj" -> \E f \in DOMAIN x \ { "t" } : x[f] # Absent
      [] OTHER -> TRUE

\* x or y
Or(x, y) == IF Truthy(x) THEN x ELSE y

\* line 15-16: os.environ.get(name, default)
get_env(value, default) == Get(value, default)

\* line 117
Region(env) ==
    Or(get_env(env.REGION, Null), Or(get_env(env.AWS_REGION, Null), Str("us-east-1")))
\* line 118
Cluster(env) == get_env(env.CLUSTER_NAME, Null)
\* line 121
TargetNamespace(env) == get_env(env.TARGET_NAMESPACE, Str("apps"))
\* line 122
TargetDeployment(env) == get_env(env.TARGET_DEPLOYMENT, Str("checkout"))

\* variant: the parameter name is not read from the environment
DegradedParamFixed(env) == Str("/checkout/degraded_mode")

\* line 123
DegradedParam(env) == get_env(env.DEGRADED_PARAM, Str("/checkout/degraded_mode"))

\* variant: only an unset cluster name is refused
MissingClusterUnsetOnly(cluster) == cluster = Null

\* line 119: if not cluster
MissingCluster(cluster) == ~Truthy(cluster)

\* The events the workflow or an operator may hand to the function.
RunbookAnnotations(runbook_action, desired_replicas) ==
    [t |-> "obj", runbook_action |-> runbook_action, desired_replicas |-> desired_replicas]
NoRunbookAnnotations == RunbookAnnotations(Absent, Absent)
AlertNames ==
    { Absent, Str("CheckoutHighLatencyP95"), Str("CheckoutHighErrorRate"),
      Str("CheckoutSLOBurnFast"), Str("CheckoutDown"), Str("CustomAlert") }
Severities == { Absent, Str("critical"), Str("warning") }
Overrides ==
    { Absent, Str(""), Str("degrade"), Str("restart"), Str("scale"),
      Str("degrade_or_scale"), Str("notify_only"), Str("unknown_action") }
ReplicaTexts == { Absent, Str("6"), Str("many") }
AnnotationValues ==
    { Absent, Null } \cup
    { RunbookAnnotations(o, r) : o \in Overrides, r \in ReplicaTexts }
RunbookEvents ==
    [ alertname : AlertNames, severity : Severities, annotations : AnnotationValues ]
NoRunbookEvent == [alertname |-> Absent, severity |-> Absent, annotations |-> Absent]

\* int(text): the decimal numerals parse, any other text raises ValueError
Numerals == << "1", "2", "3", "4", "5", "6", "7", "8", "9" >>
int(x) ==
    IF x.t = "str" /\ \E i \in DOMAIN Numerals : Numerals[i] = x.v
    THEN [ok |-> TRUE, v |-> CHOOSE i \in DOMAIN Numerals : Numerals[i] = x.v]
    ELSE [ok |-> FALSE]

\* line 125
Alertname(ev) == Get(ev.alertname, Str("UnknownAlert"))
\* variant: an event without severity counts as critical
SeverityCriticalDefault(ev) == Get(ev.severity, Str("critical"))
\* line 126
Severity(ev) == Get(ev.severity, Str("ticket"))
\* line 127: event.get("annotations", {}) or {}
AnnotationsOf(ev) == Or(Get(ev.annotations, NoRunbookAnnotations), NoRunbookAnnotations)
\* line 128: annotations.get("runbook_action")
Explicit(ev) == Get(AnnotationsOf(ev).runbook_action, Null)
\* lines 160, 169, 171: int(annotations.get("desired_replicas", "4"))
DesiredReplicas(ev) == int(Get(AnnotationsOf(ev).desired_replicas, Str("4")))

\* variant: the burn-rate alert is not routed
DefaultActionNoBurnRate(alertname) ==
    IF alertname \in { Str("CheckoutHighLatencyP95"), Str("CheckoutHighErrorRate") }
    THEN Str("degrade_or_scale")
    ELSE IF alertname \in { Str("CheckoutDown") }
         THEN Str("restart")
         ELSE Str("notify_only")

\* lines 132-135: the action the alert name selects
DefaultAction(alertname) ==
    IF alertname \in { Str("CheckoutHighLatencyP95"), Str("CheckoutHighErrorRate"),
                       Str("CheckoutSLOBurnFast") }
    THEN Str("degrade_or_scale")
    ELSE IF alertname \in { Str("CheckoutDown") }
         THEN Str("restart")
         ELSE Str("notify_only")

\* variant: only a critical alert is acted on
ResolveActionCriticalOnly(ev) ==
    IF Severity(ev) = Str("critical")
    THEN Or(Explicit(ev), DefaultAction(Alertname(ev)))
    ELSE Str("notify_only")

\* lines 131-135: explicit or (the action of the alert name)
ResolveAction(ev) == Or(Explicit(ev), DefaultAction(Alertname(ev)))

\* line 137
Result(ev, act) == [action |-> act, alertname |-> Alertname(ev), severity |-> Severity(ev)]

\* variant: the function connects to the cluster for every action
ReturnsEarlyNever(act) == FALSE

\* line 139: if action == "notify_only"
ReturnsEarly(act) == act = Str("notify_only")

\* variant: the env patch is issued before the audit write
StepsEnvFirst(act) ==
    CASE act = Str("degrade") -> << "patch_env", "put_parameter", "restart" >>
      [] act = Str("restart") -> << "restart" >>
      [] act = Str("scale") -> << "scale" >>
      [] act = Str("degrade_or_scale") -> << "patch_env", "put_parameter", "restart", "scale" >>
      [] OTHER -> << >>

\* variant: the deployment is scaled before the audit write
StepsScaleFirst(act) ==
    CASE act = Str("degrade") -> << "put_parameter", "patch_env", "restart" >>
      [] act = Str("restart") -> << "restart" >>
      [] act = Str("scale") -> << "scale" >>
      [] act = Str("degrade_or_scale") -> << "scale", "put_parameter", "patch_env", "restart" >>
      [] OTHER -> << >>

\* lines 146-172: the calls each action makes, in the order of the code
Steps(act) ==
    CASE act = Str("degrade") -> << "put_parameter", "patch_env", "restart" >>
      [] act = Str("restart") -> << "restart" >>
      [] act = Str("scale") -> << "scale" >>
      [] act = Str("degrade_or_scale") -> << "put_parameter", "patch_env", "restart", "scale" >>
      [] OTHER -> << >>

\* lines 146-172: the actions that have a branch in the handler
Dispatched == { Str("degrade"), Str("restart"), Str("scale"), Str("degrade_or_scale") }

\* variant: every branch reports the deployment as degraded
FinalResultAlwaysDegraded(ev, act) ==
    CASE act = Str("degrade_or_scale") ->
           Result(ev, act) @@ [degraded |-> TRUE, scaled_to |-> DesiredReplicas(ev).v]
      [] OTHER -> Result(ev, act) @@ [degraded |-> TRUE]

\* lines 150-151, 156, 162, 170-172: the result each branch returns
FinalResult(ev, act) ==
    CASE act = Str("degrade") -> Result(ev, act) @@ [degraded |-> TRUE]
      [] act = Str("degrade_or_scale") ->
           Result(ev, act) @@ [degraded |-> TRUE, scaled_to |-> DesiredReplicas(ev).v]
      [] OTHER -> Result(ev, act)

\* the arguments of the external calls
\* line 45
DescribeClusterArg(env) == [name |-> Cluster(env)]
\* lines 18-41
PresignArg(env) ==
    [ region |-> Region(env), header |-> [x_k8s_aws_id |-> Cluster(env)], expires_in |-> 60 ]
\* lines 147, 165
PutParameterArg(env) ==
    [ Name |-> DegradedParam(env), Value |-> "true", Type |-> "String", Overwrite |-> TRUE ]
\* lines 69, 89, 106: the path of the deployment
DeploymentUrl(env) ==
    [ namespace |-> TargetNamespace(env), deployment |-> TargetDeployment(env) ]
\* variant: the env patch switches degraded mode off
PatchEnvArgOff(env) ==
    [ method |-> "PATCH", url |-> DeploymentUrl(env),
      content_type |-> "application/strategic-merge-patch+json",
      patch |-> [ container |-> TargetDeployment(env),
                  env |-> [name |-> "DEGRADED_MODE", value |-> "false"] ] ]

\* lines 67-86 with the arguments of lines 149, 166
PatchEnvArg(env) ==
    [ method |-> "PATCH", url |-> DeploymentUrl(env),
      content_type |-> "application/strategic-merge-patch+json",
      patch |-> [ container |-> TargetDeployment(env),
                  env |-> [name |-> "DEGRADED_MODE", value |-> "true"] ] ]
\* lines 88-103
RestartArg(env, utcnow) ==
    [ method |-> "PATCH", url |-> DeploymentUrl(env),
      content_type |-> "application/strategic-merge-patch+json",
      patch |-> [ restartedAt |-> utcnow ] ]
\* variant: the replica count is sent as a strategic-merge patch
ScaleArgStrategic(env, replicas) ==
    [ method |-> "PATCH", url |-> DeploymentUrl(env),
      content_type |-> "application/strategic-merge-patch+json",
      patch |-> [ replicas |-> replicas ] ]

\* lines 105-109
ScaleArg(env, replicas) ==
    [ method |-> "PATCH", url |-> DeploymentUrl(env),
      content_type |-> "application/merge-patch+json",
      patch |-> [ replicas |-> replicas ] ]

\* ---------------------------------------------- control-plane client
\* A text is kept as runs of one character, << character, count >>,
\* together with the JSON document it parses to (NotJson when it does not).
NotJson == [t |-> "invalid"]
Text(runs, doc) == [runs |-> runs, doc |-> doc]
RECURSIVE LenOfRuns(_)
LenOfRuns(runs) ==
    IF runs = << >> THEN 0 ELSE runs[1][2] + LenOfRuns(Tail(runs))
TextLen(text) == LenOfRuns(text.runs)

\* the first n characters of the runs
RECURSIVE TakeRuns(_, _)
TakeRuns(runs, n) ==
    IF runs = << >> \/ n = 0
    THEN << >>
    ELSE IF runs[1][2] <= n
         THEN << runs[1] >> \o TakeRuns(Tail(runs), n - runs[1][2])
         ELSE << << runs[1][1], n >> >>

\* text[:n]
Slice(text, n) ==
    IF TextLen(text) <= n THEN text ELSE Text(TakeRuns(text.runs, n), NotJson)

\* line 62: resp.text[:500]
ErrorTextLimit == 500

\* line 61: if resp.status_code >= 300
K8sFails(status_code) == status_code >= 300

\* lines 50-65: _k8s_request hands back the parsed body of the response,
\* {} for an empty body, and raises for a failing status or a body that
\* is no JSON.
K8sRequest(method, url, resp) ==
    IF K8sFails(resp.status_code)
    THEN [ kind |-> "raise",
           error |-> [ type |-> "RuntimeError", method |-> method, url |-> url,
                       status_code |-> resp.status_code,
                       text |-> Slice(resp.text, ErrorTextLimit) ] ]
    ELSE IF TextLen(resp.text) > 0
         THEN IF resp.text.doc = NotJson
              THEN [kind |-> "raise", error |-> [type |-> "ValueError"]]
              ELSE [kind |-> "return", value |-> resp.text.doc]
         ELSE [kind |-> "return", value |-> [t |-> "obj"]]

\* the bodies a response may carry
EmptyBody == Text(<< >>, NotJson)
StatusBody == Text(<< << "{", 1 >>, << "s", 20 >>, << "}", 1 >> >>, [t |-> "obj", kind |-> "Status"])
DeploymentBody == Text(<< << "{", 1 >>, << "d", 600 >>, << "}", 1 >> >>, [t |-> "obj", kind |-> "Deployment"])
ForbiddenBody == Text(<< << "F", 1 >>, << "o", 8 >> >>, NotJson)
LongBody == Text(<< << "e", 499 >>, << "r", 2 >>, << "x", 100 >> >>, NotJson)
ExactBody == Text(<< << "e", 499 >>, << "r", 1 >> >>, NotJson)
Response(status_code, text) == [status_code |-> status_code, text |-> text]

\* What the API server of the cluster answers to a patch of a deployment:
\* the patched deployment, or an error status with a short or a long body.
ApiResponses ==
    { Response(200, DeploymentBody), Response(403, ForbiddenBody), Response(500, LongBody) }

\* a request that never got its response (requests raises, line 60)
TransportError == [status_code |-> 0, text |-> EmptyBody]

\* What a call can do: succeed or raise; a request to the cluster API is
\* answered or breaks off.
ExternalOutcomes(op) ==
    IF op \in { "patch_env", "restart", "scale" }
    THEN { "ok", "status", "raise" }
    ELSE { "ok", "raise" }

\* ------------------------------------------------- the world acted on
\* The audit parameter and the deployment before any remediation.
NoValue == "unset"
InitialDeployment ==
    [ env |-> [DEGRADED_MODE |-> NoValue, PORT |-> "8080"],
      restartedAt |-> << >>,
      replicas |-> 2 ]

WorldInit ==
    /\ ssm = NoValue
    /\ deployment = InitialDeployment

\* nothing has called _k8s_request directly, no workflow is running
NoCall == [kind |-> "none"]
NoWorld == [kind |-> "none"]
NoRun == [kind |-> "none"]
CallerIdle ==
    /\ k8sCall = NoCall
    /\ attempts = 0
    /\ startWorld = NoWorld
    /\ firstRun = NoRun

\* variant: the value of an existing parameter is kept
PutParameterEffectKept(arg) == ssm

\* line 147: put_parameter(Overwrite=True) replaces the value
PutParameterEffect(arg) == arg.Value

\* lines 71-84: the strategic merge sets the named variable of the container
PatchEnvEffect(dep, arg) ==
    [ dep EXCEPT !.env[arg.patch.env.name] = arg.patch.env.value ]

\* lines 91-101: the pod template gets the restartedAt annotation
RestartEffect(dep, arg) == [ dep EXCEPT !.restartedAt = << arg.patch.restartedAt >> ]

\* variant: the patch adds to the replica count
ScaleEffectAdding(dep, arg) == [ dep EXCEPT !.replicas = @ + arg.patch.replicas ]

\* line 107: the merge patch replaces spec.replicas
ScaleEffect(dep, arg) == [ dep EXCEPT !.replicas = arg.patch.replicas ]

\* what a call that reached its service does to the world
Effect(op, arg) ==
    /\ ssm' = IF op = "put_parameter" THEN PutParameterEffect(arg) ELSE ssm
    /\ deployment' = CASE op = "patch_env" -> PatchEnvEffect(deployment, arg)
                       [] op = "restart" -> RestartEffect(deployment, arg)
                       [] op = "scale" -> ScaleEffect(deployment, arg)
                       [] OTHER -> deployment

NoAction == Null
NoRunbookResponse == [kind |-> "none"]
ReturnedResult(res) == [kind |-> "return", result |-> res]

RemediationIdle ==
    /\ runbookPc = "idle"
    /\ runbookEvent = NoRunbookEvent
    /\ action = NoAction
    /\ step = 1
    /\ externalCalls = << >>
    /\ runbookResponse = NoRunbookResponse

\* lines 116-140: lambda_handler reads its configuration, resolves the
\* action and returns at once for notify_only.
Start(ev) ==
    /\ runbookEvent' = ev
    /\ step' = 1
    /\ externalCalls' = << >>
    /\ UNCHANGED << environ, ssm, deployment >>
    /\ IF MissingCluster(Cluster(environ))
       THEN /\ runbookPc' = "raised"
            /\ runbookResponse' = Raised([ type |-> "RuntimeError",
                                           message |-> "CLUSTER_NAME env var is required" ])
            /\ action' = NoAction
       ELSE /\ action' = ResolveAction(ev)
            /\ IF ReturnsEarly(action')
               THEN /\ runbookPc' = "returned"
                    /\ runbookResponse' = ReturnedResult(Result(ev, action'))
               ELSE /\ runbookPc' = "connect"
                    /\ runbookResponse' = NoRunbookResponse

\* The runtime calls lambda_handler with an event.
RunbookInvoke(ev) ==
    /\ runbookPc = "idle"
    /\ UNCHANGED ingestVars
    /\ UNCHANGED checkoutVars
    /\ UNCHANGED callerVars
    /\ Start(ev)

\* variant: an error status of the cluster API does not stop the handler
StopsOnRaiseOnly(outcome) == outcome = "raise"

\* lines 61-62 and the exceptions of boto3 and requests: the call raised
Stops(outcome) == outcome # "ok"

\* One external call: it is logged with its outcome; the handler goes on
\* unless the call raised. A call that was answered has had its effect; a
\* call that broke off may or may not have reached its service.
ExternalCall(op, arg, outcome, error, next) ==
    /\ externalCalls' = Append(externalCalls, [op |-> op, arg |-> arg, outcome |-> outcome])
    /\ IF Stops(outcome)
       THEN /\ runbookPc' = "raised"
            /\ runbookResponse' = Raised(error)
       ELSE /\ runbookPc' = next
            /\ UNCHANGED runbookResponse
    /\ CASE outcome = "ok" -> Effect(op, arg)
         [] outcome = "raise" -> Effect(op, arg) \/ UNCHANGED << ssm, deployment >>
         [] OTHER -> UNCHANGED << ssm, deployment >>
    /\ UNCHANGED << environ, runbookEvent, action >>

\* a call through boto3: it returns or raises
AwsCall(op, arg, next) ==
    \E o \in ExternalOutcomes(op) :
      ExternalCall(op, arg, o, [type |-> "CallError", op |-> op], next)

\* lines 50-65, 86, 103, 109: a patch through _k8s_request
Patch(op, arg) ==
    \/ \E resp \in ApiResponses :
         LET res == K8sRequest(arg.method, arg.url, resp)
         IN  IF res.kind = "raise"
             THEN ExternalCall(op, arg, "status", res.error, "steps")
             ELSE ExternalCall(op, arg, "ok", [type |-> "none"], "steps")
    \/ ExternalCall(op, arg, "raise", [type |-> "CallError", op |-> op], "steps")

\* line 143: _cluster_conn
ClusterConn ==
    /\ runbookPc = "connect"
    /\ UNCHANGED ingestVars
    /\ UNCHANGED checkoutVars
    /\ UNCHANGED callerVars
    /\ UNCHANGED step
    /\ AwsCall("describe_cluster", DescribeClusterArg(environ), "token")

\* line 144: _eks_bearer_token
EksBearerToken ==
    /\ runbookPc = "token"
    /\ UNCHANGED ingestVars
    /\ UNCHANGED checkoutVars
    /\ UNCHANGED callerVars
    /\ UNCHANGED step
    /\ AwsCall("presign", PresignArg(environ), "steps")

\* the handler is at the call named op of its branch
AtStep(op) ==
    /\ runbookPc = "steps"
    /\ step <= Len(Steps(action))
    /\ Steps(action)[step] = op

\* lines 147, 165: SSM.put_parameter
PutParameter ==
    /\ AtStep("put_parameter")
    /\ UNCHANGED ingestVars
    /\ UNCHANGED checkoutVars
    /\ UNCHANGED callerVars
    /\ step' = step + 1
    /\ AwsCall("put_parameter", PutParameterArg(environ), "steps")

\* lines 149, 166: _patch_deployment_env
PatchDeploymentEnv ==
    /\ AtStep("patch_env")
    /\ UNCHANGED ingestVars
    /\ UNCHANGED checkoutVars
    /\ UNCHANGED callerVars
    /\ step' = step + 1
    /\ Patch("patch_env", PatchEnvArg(environ))

\* lines 150, 155, 167: _restart_deployment stamps the patch with utcnow()
RestartDeployment ==
    /\ AtStep("restart")
    /\ UNCHANGED ingestVars
    /\ UNCHANGED checkoutVars
    /\ UNCHANGED callerVars
    /\ step' = step + 1
    /\ \E utcnow \in 0..MaxClock : Patch("restart", RestartArg(environ, utcnow))

\* lines 160-161, 169: int(desired_replicas) is taken right before the
\* scale patch and raises ValueError for a text that is no number.
ScaleDeployment ==
    /\ AtStep("scale")
    /\ UNCHANGED ingestVars
    /\ UNCHANGED checkoutVars
    /\ UNCHANGED callerVars
    /\ step' = step + 1
    /\ LET replicas == DesiredReplicas(runbookEvent)
       IN  IF replicas.ok
           THEN Patch("scale", ScaleArg(environ, replicas.v))
           ELSE /\ runbookPc' = "raised"
                /\ runbookResponse' = Raised([type |-> "ValueError"])
                /\ UNCHANGED << environ, runbookEvent, action, externalCalls, ssm,
                                deployment >>

\* lines 151-152, 156, 162, 170-172: the branch returns its result;
\* line 174: no branch took the action.
Finish ==
    /\ runbookPc = "steps"
    /\ step > Len(Steps(action))
    /\ UNCHANGED ingestVars
    /\ UNCHANGED checkoutVars
    /\ UNCHANGED callerVars
    /\ IF action \in Dispatched
       THEN /\ runbookPc' = "returned"
            /\ runbookResponse' = ReturnedResult(FinalResult(runbookEvent, action))
       ELSE /\ runbookPc' = "raised"
            /\ runbookResponse' = Raised([ type |-> "RuntimeError",
                                           message |-> "Unknown action: " \o Fmt(action) ])
    /\ UNCHANGED << environ, runbookEvent, action, step, externalCalls, ssm, deployment >>

\* The handler's frame is gone once its result or its exception has been
\* handed to the runtime, which then waits for the next event.
RunbookDeliver ==
    /\ runbookPc \in { "returned", "raised" }
    /\ UNCHANGED ingestVars
    /\ UNCHANGED checkoutVars
    /\ runbookPc' = "idle"
    /\ runbookEvent' = NoRunbookEvent
    /\ action' = NoAction
    /\ step' = 1
    /\ externalCalls' = << >>
    /\ runbookResponse' = NoRunbookResponse
    /\ attempts' = 0
    /\ startWorld' = NoWorld
    /\ firstRun' = NoRun
    /\ UNCHANGED << environ, ssm, deployment, k8sCall >>

\* The ingest function alone: the remediation function stays idle.
\* ========================================================= checkout service
\* src/apps/checkout/app.py

MaxThreads == 2         \* request threads of the service
MaxRequests == 3        \* /checkout requests begun in one behaviour

Threads == 1..MaxThreads

\* os.environ of the service: nothing set; degraded with faults configured,
\* in lower and in upper case; faults configured without degraded mode; a
\* flag value that is not "true".
CheckoutEnviron(degraded_mode, error_rate, latency_ms, chaos) ==
    [ DEGRADED_MODE |-> degraded_mode, ERROR_RATE |-> error_rate,
      LATENCY_MS |-> latency_ms, CHAOS |-> chaos ]
NoCheckoutEnviron == CheckoutEnviron(Absent, Absent, Absent, Absent)
CheckoutEnvirons ==
    { NoCheckoutEnviron,
      CheckoutEnviron(Str("true"), Str("1.0"), Str("200"), Absent),
      CheckoutEnviron(Str("TRUE"), Str("0.5"), Str("0"), Str("true")),
      CheckoutEnviron(Str("false"), Str("1.0"), Str("200"), Str("True")),
      CheckoutEnviron(Str("false"), Str("0.5"), Str("0"), Str("false")),
      CheckoutEnviron(Str("1"), Str("0.00"), Str("200"), Absent) }

\* os.getenv(name, default)
getenv(value, default) == IF value = Absent THEN default ELSE value.v

\* str.lower()
lower(s) ==
    CASE s \in { "true", "True", "TRUE" } -> "true"
      [] s \in { "false", "False", "FALSE" } -> "false"
      [] OTHER -> s

\* float(text), in hundredths
float(s) ==
    CASE s \in { "0.00", "0.0", "0" } -> 0
      [] s = "0.5" -> 50
      [] s = "1.0" -> 100

\* int(text) of a number of milliseconds
Millis(s) ==
    CASE s = "0" -> 0
      [] s = "200" -> 200

\* lines 14-17: the configuration read once when the module is loaded
DEGRADED == lower(getenv(checkoutEnv.DEGRADED_MODE, "false")) = "true"
ERROR_RATE == float(getenv(checkoutEnv.ERROR_RATE, "0.00"))
LATENCY_MS == Millis(getenv(checkoutEnv.LATENCY_MS, "0"))
CHAOS == lower(getenv(checkoutEnv.CHAOS, "false")) = "true"

\* random.random(), in hundredths: a value of [0, 1)
Randoms == { 0, 1, 2, 49, 50, 99 }

\* lines 7-12: every metric starts at zero
NoMetrics ==
    [ INFLIGHT |-> 0, CHECKOUT_OK |-> 0, CHECKOUT_FAIL |-> 0, REQS_200 |-> 0,
      REQS_500 |-> 0, DEP_FAIL_redis |-> 0, DEP_FAIL_rds |-> 0, LAT |-> 0 ]

NoPending == [kind |-> "none"]
NoFrame == [code |-> 0, slept |-> FALSE, pending |-> NoPending]

CheckoutIdle ==
    /\ checkoutEnv = NoCheckoutEnviron
    /\ handlerPc = [ t \in Threads |-> "idle" ]
    /\ frames = [ t \in Threads |-> NoFrame ]
    /\ metrics = NoMetrics
    /\ begun = 0

\* variant: the gauge is left as it is
DecKept(value) == value

\* line 58: Gauge.dec(), done under the lock of the metric
Dec(value) == value - 1

\* line 34: Gauge.inc() and Counter.inc(), done under the lock of the metric
Inc(value) == value + 1

\* line 44: if not DEGRADED and LATENCY_MS > 0
Sleeps == ~DEGRADED /\ LATENCY_MS > 0

\* variant: the error is injected whatever the mode
InjectsErrorAlways(random) == random < ERROR_RATE

\* line 47: if (not DEGRADED) and random.random() < ERROR_RATE
InjectsError(random) == ~DEGRADED /\ random < ERROR_RATE

\* lines 32-36: a thread takes a request up
Begin(t) ==
    /\ handlerPc[t] = "idle"
    /\ begun < MaxRequests
    /\ begun' = begun + 1
    /\ metrics' = [ metrics EXCEPT !.INFLIGHT = Inc(@) ]
    /\ frames' = [ frames EXCEPT ![t] = [code |-> 200, slept |-> FALSE, pending |-> NoPending] ]
    /\ handlerPc' = [ handlerPc EXCEPT ![t] = "chaos" ]
    /\ UNCHANGED checkoutEnv
    /\ UNCHANGED ingestVars
    /\ UNCHANGED remediationVars

\* lines 38-42: with CHAOS, a dependency error is counted now and then
Chaos(t) ==
    /\ handlerPc[t] = "chaos"
    /\ handlerPc' = [ handlerPc EXCEPT ![t] = "sleep" ]
    /\ IF CHAOS
       THEN \E redis \in Randoms, rds \in Randoms :
              metrics' = [ metrics EXCEPT
                             !.DEP_FAIL_redis = IF redis < 2 THEN Inc(@) ELSE @,
                             !.DEP_FAIL_rds = IF rds < 1 THEN Inc(@) ELSE @ ]
       ELSE UNCHANGED metrics
    /\ UNCHANGED << checkoutEnv, frames, begun >>
    /\ UNCHANGED ingestVars
    /\ UNCHANGED remediationVars

\* lines 44-45: time.sleep ends, or is interrupted by an exception that
\* leaves through the finally clause
Sleep(t) ==
    /\ handlerPc[t] = "sleep"
    /\ IF Sleeps
       THEN \E interrupted \in BOOLEAN :
              IF interrupted
              THEN /\ handlerPc' = [ handlerPc EXCEPT ![t] = "finally" ]
                   /\ frames' = [ frames EXCEPT ![t].slept = TRUE,
                                                ![t].pending = [kind |-> "exception"] ]
              ELSE /\ handlerPc' = [ handlerPc EXCEPT ![t] = "decide" ]
                   /\ frames' = [ frames EXCEPT ![t].slept = TRUE ]
       ELSE /\ handlerPc' = [ handlerPc EXCEPT ![t] = "decide" ]
            /\ UNCHANGED frames
    /\ UNCHANGED << checkoutEnv, metrics, begun >>
    /\ UNCHANGED ingestVars
    /\ UNCHANGED remediationVars

\* lines 47-55: the injected failure, or the successful checkout
Decide(t) ==
    /\ handlerPc[t] = "decide"
    /\ handlerPc' = [ handlerPc EXCEPT ![t] = "finally" ]
    /\ \E random \in Randoms :
         IF InjectsError(random)
         THEN /\ metrics' = [ metrics EXCEPT !.CHECKOUT_FAIL = Inc(@), !.REQS_500 = Inc(@) ]
              /\ frames' = [ frames EXCEPT
                               ![t].code = 500,
                               ![t].pending = [ kind |-> "return", status_code |-> 500,
                                                json |-> [status |-> "fail"] ] ]
         ELSE /\ metrics' = [ metrics EXCEPT !.CHECKOUT_OK = Inc(@), !.REQS_200 = Inc(@) ]
              /\ frames' = [ frames EXCEPT
                               ![t].pending = [ kind |-> "return", status_code |-> 200,
                                                json |-> [ status |-> "ok",
                                                           degraded |-> DEGRADED ] ] ]
    /\ UNCHANGED << checkoutEnv, begun >>
    /\ UNCHANGED ingestVars
    /\ UNCHANGED remediationVars

\* lines 56-58: the finally clause, on every way out of the try block
Finally(t) ==
    /\ handlerPc[t] = "finally"
    /\ handlerPc' = [ handlerPc EXCEPT ![t] = "done" ]
    /\ metrics' = [ metrics EXCEPT !.LAT = Inc(@), !.INFLIGHT = Dec(@) ]
    /\ UNCHANGED << checkoutEnv, frames, begun >>
    /\ UNCHANGED ingestVars
    /\ UNCHANGED remediationVars

\* the response, or the error page for the exception, has been sent; the
\* thread is free for the next request
Respond(t) ==
    /\ handlerPc[t] = "done"
    /\ handlerPc' = [ handlerPc EXCEPT ![t] = "idle" ]
    /\ frames' = [ frames EXCEPT ![t] = NoFrame ]
    /\ UNCHANGED << checkoutEnv, metrics, begun >>
    /\ UNCHANGED ingestVars
    /\ UNCHANGED remediationVars

CheckoutInit ==
    /\ IngestInit
    /\ environ = Environ(Str("test-cluster"), Absent, Absent, Absent, Absent, Absent)
    /\ RemediationIdle
    /\ WorldInit
    /\ CallerIdle
    /\ checkoutEnv \in CheckoutEnvirons
    /\ handlerPc = [ t \in Threads |-> "idle" ]
    /\ frames = [ t \in Threads |-> NoFrame ]
    /\ metrics = NoMetrics
    /\ begun = 0

CheckoutNext ==
    \E t \in Threads :
      \/ Begin(t)
      \/ Chaos(t)
      \/ Sleep(t)
      \/ Decide(t)
      \/ Finally(t)
      \/ Respond(t)

CheckoutSpec == CheckoutInit /\ [][CheckoutNext]_vars

\* ============================================================ specifications

Init ==
    /\ IngestInit
    /\ environ = Environ(Str("test-cluster"), Absent, Absent, Absent, Absent, Absent)
    /\ RemediationIdle
    /\ WorldInit
    /\ CallerIdle
    /\ CheckoutIdle

Next ==
    \/ \E ev \in Events : Invoke(ev)
    \/ Normalize
    \/ PutItem
    \/ PutEvents
    \/ Publish
    \/ StartExecution
    \/ AppendResult
    \/ Return
    \/ Deliver

Spec == Init /\ [][Next]_vars

\* The remediation function alone: the ingest function stays idle.
RemediationInit ==
    /\ IngestInit
    /\ environ \in Environs
    /\ RemediationIdle
    /\ WorldInit
    /\ CallerIdle
    /\ CheckoutIdle

RemediationNext ==
    \/ \E ev \in RunbookEvents : RunbookInvoke(ev)
    \/ ClusterConn
    \/ EksBearerToken
    \/ PutParameter
    \/ PatchDeploymentEnv
    \/ RestartDeployment
    \/ ScaleDeployment
    \/ Finish
    \/ RunbookDeliver

RemediationSpec == RemediationInit /\ [][RemediationNext]_vars

\* ---------------------------------------- the control-plane client alone
\* The statuses and bodies an HTTP response can carry, and the methods the
\* client is called with.
HttpStatuses == { 100, 101, 199, 200, 201, 204, 299, 300, 301, 403, 404, 500, 503 }
HttpBodies == { EmptyBody, StatusBody, DeploymentBody, ForbiddenBody, LongBody, ExactBody }
HttpMethods == { "GET", "PATCH", "DELETE" }

\* lines 50-65: _k8s_request is called with a method and gets a response
K8sRequestCall(method, resp) ==
    /\ k8sCall = NoCall
    /\ k8sCall' = [ kind |-> "call", method |-> method, url |-> DeploymentUrl(environ),
                    resp |-> resp,
                    result |-> K8sRequest(method, DeploymentUrl(environ), resp) ]
    /\ UNCHANGED ingestVars
    /\ UNCHANGED checkoutVars
    /\ UNCHANGED << environ, runbookPc, runbookEvent, action, step, externalCalls,
                    runbookResponse, ssm, deployment, attempts, startWorld, firstRun >>

\* lines 50-65: the call is over, its result or its error is with the caller
K8sRequestReturn ==
    /\ k8sCall # NoCall
    /\ k8sCall' = NoCall
    /\ UNCHANGED ingestVars
    /\ UNCHANGED checkoutVars
    /\ UNCHANGED << environ, runbookPc, runbookEvent, action, step, externalCalls,
                    runbookResponse, ssm, deployment, attempts, startWorld, firstRun >>

ClientNext ==
    \/ \E method \in HttpMethods, status_code \in HttpStatuses, text \in HttpBodies :
         K8sRequestCall(method, Response(status_code, text))
    \/ K8sRequestReturn

ClientSpec == Init /\ [][ClientNext]_vars

\* --------------------------------------------- the workflow as caller
\* src/tests/integration/test_alert_pipeline.py, lines 195-222: the task
\* of the workflow invokes the remediation function with the incident
\* and retries it on any error.
MaxAttempts == 3

\* The incidents the workflow is started with.
WorkflowEvents ==
    { ev \in RunbookEvents :
        /\ ev.alertname \in { Str("CheckoutDown"), Str("CheckoutHighErrorRate"),
                              Str("CustomAlert") }
        /\ ev.severity \in { Str("critical"), Str("warning") }
        /\ ev.annotations \in { Absent,
                                 RunbookAnnotations(Str("scale"), Str("6")),
                                 RunbookAnnotations(Str("degrade"), Absent) } }

World == [ssm |-> ssm, deployment |-> deployment]

\* how a run of the handler ended
RunSummary ==
    [ kind |-> "run", event |-> runbookEvent, action |-> action,
      calls |-> externalCalls, response |-> runbookResponse ]
\* an earlier run that is no longer compared with the current one
Incomparable == [kind |-> "incomparable"]

\* "Type": "Task", "Resource": runbook_action_arn: the first attempt
WorkflowInvoke(ev) ==
    /\ runbookPc = "idle"
    /\ attempts = 0
    /\ UNCHANGED ingestVars
    /\ UNCHANGED checkoutVars
    /\ Start(ev)
    /\ attempts' = 1
    /\ startWorld' = World
    /\ UNCHANGED << k8sCall, firstRun >>

\* "Retry": "ErrorEquals": ["States.All"], "MaxAttempts": 3: a failed
\* attempt is followed by a new invocation with the same input.
Retry ==
    /\ runbookPc = "raised"
    /\ attempts >= 1
    /\ attempts - 1 < MaxAttempts
    /\ UNCHANGED ingestVars
    /\ UNCHANGED checkoutVars
    /\ Start(runbookEvent)
    /\ attempts' = attempts + 1
    /\ firstRun' = IF firstRun = NoRun THEN NoRun ELSE Incomparable
    /\ UNCHANGED << k8sCall, startWorld >>

\* alert_ingest/handler.py lines 70-73: an alert that is sent again starts
\* the workflow again once the earlier execution is over; its severity
\* label may have changed.
Redeliver(sev) ==
    /\ \/ runbookPc = "returned"
       \/ runbookPc = "raised" /\ attempts - 1 = MaxAttempts
    /\ attempts >= 1
    /\ firstRun = NoRun
    /\ UNCHANGED ingestVars
    /\ UNCHANGED checkoutVars
    /\ firstRun' = RunSummary
    /\ Start([ runbookEvent EXCEPT !.severity = sev ])
    /\ attempts' = 1
    /\ startWorld' = World
    /\ UNCHANGED k8sCall

WorkflowInit ==
    /\ IngestInit
    /\ environ \in { Environ(Absent, Absent, Absent, Absent, Absent, Absent),
                      Environ(Str("test-cluster"), Absent, Absent, Absent, Absent, Absent) }
    /\ RemediationIdle
    /\ WorldInit
    /\ CallerIdle
    /\ CheckoutIdle

WorkflowNext ==
    \/ \E ev \in WorkflowEvents : WorkflowInvoke(ev)
    \/ Retry
    \/ \E sev \in { Str("critical"), Str("warning") } : Redeliver(sev)
    \/ ClusterConn
    \/ EksBearerToken
    \/ PutParameter
    \/ PatchDeploymentEnv
    \/ RestartDeployment
    \/ ScaleDeployment
    \/ Finish

WorkflowSpec == WorkflowInit /\ [][WorkflowNext]_vars

\* ------------------------------------------- the same body, sent twice
\* alert_ingest/handler.py lines 16-19: the gateway hands a body over
\* either as it is or base64-encoded with isBase64Encoded set.  A sender
\* posts a JSON text encoded and then posts the same text plain.
EncodedTexts ==
    ( PlainTexts \ { EmptyText, GarbageText } )
      \cup { JsonText(ObjectDoc(Arr(<< a >>))) : a \in RawAlerts }
      \cup { JsonText(ObjectDoc(Arr(<< a, a >>))) :
               a \in { RawAlert(EmptyLabels, EmptyAnnotations, Absent) } }

\* a sink call without the two incident fields that vary per call
CallUpToId(c) ==
    LET n == CASE c.sink = "put_item" -> c.arg.Item.payload
               [] c.sink = "put_events" -> c.arg.Entries[1].Detail.doc
               [] c.sink = "publish" -> c.arg.Message.doc
               [] c.sink = "start_execution" -> c.arg.input.doc
    IN  [ sink |-> c.sink, alert |-> c.alert, outcome |-> c.outcome,
          incident |-> [ f \in DOMAIN n \ { "incident_id", "timestamp" } |-> n[f] ],
          rest |-> CASE c.sink = "put_item" ->
                          [ c.arg.Item EXCEPT !.incident_id = 0, !.ts = 0, !.payload = 0 ]
                     [] c.sink = "put_events" ->
                          [ c.arg.Entries[1] EXCEPT !.Detail = 0 ]
                     [] c.sink = "publish" -> [ c.arg EXCEPT !.Message = 0 ]
                     [] c.sink = "start_execution" -> [ c.arg EXCEPT !.input = 0 ] ]

\* what an invocation did, up to incident_id and timestamp
IngestSummary ==
    [ pc |-> pc,
      error |-> IF response.kind = "raise" THEN response.error ELSE [type |-> "none"],
      processed |-> [ i \in DOMAIN results |-> results[i].alertname ],
      calls |-> [ i \in DOMAIN calls |-> CallUpToId(calls[i]) ] ]

\* the text is posted base64-encoded
InvokeEncoded(text) ==
    /\ invocations = 0
    /\ Invoke([body |-> B64(text), isBase64Encoded |-> TRUE])

\* the encoded invocation has ended and is kept for comparison
DeliverEncoded ==
    /\ pc \in { "returned", "raised" }
    /\ firstRun = NoRun
    /\ firstRun' = [ kind |-> "run", text |-> event.body.text, summary |-> IngestSummary ]
    /\ FrameGone
    /\ UNCHANGED << environ, runbookPc, runbookEvent, action, step, externalCalls,
                    runbookResponse, ssm, deployment, k8sCall, attempts, startWorld >>
    /\ UNCHANGED checkoutVars

\* the same text is posted plain
InvokePlain ==
    /\ firstRun # NoRun
    /\ Invoke([body |-> Plain(firstRun.text), isBase64Encoded |-> FALSE])

EncodingNext ==
    \/ \E text \in EncodedTexts : InvokeEncoded(text)
    \/ DeliverEncoded
    \/ InvokePlain
    \/ Normalize
    \/ PutItem
    \/ PutEvents
    \/ Publish
    \/ StartExecution
    \/ AppendResult
    \/ Return

EncodingSpec == Init /\ [][EncodingNext]_vars

\* ------------------------------------------------ alerts of every size
\* alert_ingest/handler.py lines 64-68: webhooks of one alert each, whose
\* description makes the pretty-printed incident short, exactly 240000
\* characters long, one character longer, and much longer; and an alert
\* without labels.
SizedAlert(description) ==
    RawAlert(Labels(Str("CheckoutHighErrorRate"), Str("critical"), Str("checkout")),
             Annotations(description), Str("firing"))
SizedAlerts ==
    { SizedAlert(Str("High error rate detected")),
      SizedAlert(LongStr("x", 239602)),
      SizedAlert(LongStr("x", 239603)),
      SizedAlert(LongStr("x", 250000)),
      RawAlert(EmptyLabels, EmptyAnnotations, Absent) }

InvokeSized(a) ==
    Invoke([body |-> Plain(JsonText(ObjectDoc(Arr(<< a >>)))), isBase64Encoded |-> FALSE])

NotificationNext ==
    \/ \E a \in SizedAlerts : InvokeSized(a)
    \/ Normalize
    \/ PutItem
    \/ PutEvents
    \/ Publish
    \/ StartExecution
    \/ AppendResult
    \/ Return
    \/ Deliver

NotificationSpec == Init /\ [][NotificationNext]_vars

\* ================================================================ claims
Terminal == pc \in { "returned", "raised" }

CallIdx == 1..Len(calls)

\* the place of a sink in the order the specification gives:
\* storage write, bus publish, notification publish, workflow invoke
Rank(sink) ==
    CASE sink = "put_item" -> 1
      [] sink = "put_events" -> 2
      [] sink = "publish" -> 3
      [] sink = "start_execution" -> 4

\* C1: the four sink calls of an incident are issued in the order storage
\* write, bus publish, notification publish, workflow invoke, each only
\* after the previous one returned without raising; so an incident whose
\* workflow execution was started has already been written to storage.
C1_FanOutOrdered ==
    /\ \A j \in CallIdx :
         IF Rank(calls[j].sink) = 1
         THEN j = 1 \/ calls[j - 1].alert # calls[j].alert
         ELSE /\ j > 1
              /\ calls[j - 1].alert = calls[j].alert
              /\ Rank(calls[j - 1].sink) = Rank(calls[j].sink) - 1
              /\ calls[j - 1].outcome # "raise"
    /\ \A j \in CallIdx :
         calls[j].sink = "start_execution" =>
           \E i \in 1..(j - 1) :
              /\ calls[i].sink = "put_item"
              /\ calls[i].outcome = "ok"
              /\ CarriedId(calls[i]) = CarriedId(calls[j])

\* C1 witness: two incidents went through all four sinks.
C1_Witness ==
    /\ Len(calls) = 8
    /\ calls[8].sink = "start_execution"
    /\ calls[8].outcome = "ok"

\* an alert the normalization and the subject formatting accept
WellFormed(a) ==
    /\ IsDict(Get(a.labels, EmptyLabels))
    /\ IsStr(Get(Get(a.labels, EmptyLabels).severity, Str("ticket")))

\* C2: a failure in a sink call for one alert of a batch leaves the other
\* alerts of the batch alone: each other alert, also the ones after the
\* failing one, still gets its four sink calls.
C2_OtherAlertsStillDispatched ==
    Terminal =>
      \A j \in CallIdx :
         calls[j].outcome = "raise" =>
           \A i \in 1..Len(alerts) :
              (i # calls[j].alert /\ WellFormed(alerts[i])) =>
                \A s \in Sinks : \E m \in CallIdx : calls[m].alert = i /\ calls[m].sink = s

\* C3: when call k of an incident's fan-out fails, calls k+1..4 of that
\* incident are never issued, and the calls already made stay as they are:
\* until the invocation is over, every step leaves the log of sink calls
\* as it is or adds calls of the four sinks to it.
C3_FailureAbortsRest ==
    /\ [](\A j \in CallIdx :
            calls[j].outcome = "raise" =>
              /\ \A m \in CallIdx : (m > j) => calls[m].alert # calls[j].alert
              /\ \A k \in 1..(Rank(calls[j].sink) - 1) :
                    \E m \in 1..(j - 1) :
                       /\ calls[m].alert = calls[j].alert
                       /\ Rank(calls[m].sink) = k
                       /\ calls[m].outcome # "raise")
    /\ [][\/ /\ Len(calls') >= Len(calls)
              /\ SubSeq(calls', 1, Len(calls)) = calls
              /\ \A m \in (Len(calls) + 1)..Len(calls') : calls'[m].sink \in Sinks
           \/ pc' = "idle"]_vars

\* C3 witness: the third call of an incident failed after two succeeded.
C3_Witness ==
    /\ pc = "raised"
    /\ Len(calls) = 3
    /\ calls[3].sink = "publish"
    /\ calls[3].outcome = "raise"
    /\ calls[1].outcome = "ok"

\* C4: within one invocation no sink receives two calls that carry the
\* same incident_id, whether the calls succeed or fail.
C4_AtMostOncePerIncident ==
    \A i, j \in CallIdx :
       (i # j /\ calls[i].sink = calls[j].sink) => CarriedId(calls[i]) # CarriedId(calls[j])

\* C4 witness: a second incident reached a sink, and its call failed.
C4_Witness ==
    /\ Len(calls) = 5
    /\ calls[5].sink = "put_item"
    /\ calls[5].outcome = "raise"
    /\ calls[1].sink = "put_item"

\* C5: when a sink call raises, the invocation fails with that error: no
\* 200 response and no processed list, also when earlier alerts of the
\* batch were dispatched completely; the calls of those alerts remain.
C5_SinkErrorFailsInvocation ==
    \A j \in CallIdx :
       calls[j].outcome = "raise" =>
         /\ pc = "raised"
         /\ j = Len(calls)
         /\ response = Raised([type |-> "SinkError", sink |-> calls[j].sink,
                               alert |-> calls[j].alert])
         /\ \A i \in 1..Len(results) :
               \A s \in Sinks :
                  \E m \in 1..(j - 1) :
                     /\ calls[m].alert = i
                     /\ calls[m].sink = s
                     /\ CarriedId(calls[m]) = results[i].incident_id

\* C5 witness: the first alert was dispatched completely, the second failed.
C5_Witness ==
    /\ pc = "raised"
    /\ Len(results) = 1
    /\ Len(calls) > 4
    /\ calls[Len(calls)].outcome = "raise"

\* the incident ids of the processed list of a 200 response
ProcessedIds ==
    IF response.kind = "return"
    THEN { response.body.doc.processed[i].incident_id :
             i \in 1..Len(response.body.doc.processed) }
    ELSE {}

\* C6: every failure of a sink is surfaced: an incident one of whose sink
\* calls did not succeed (a bus publish that reports a failed entry
\* included) is never listed as processed in a success response.
C6_EveryFailureSurfaced ==
    \A j \in CallIdx :
       calls[j].outcome # "ok" => CarriedId(calls[j]) \notin ProcessedIds

\* the body does not hold a JSON text under the encoding the event declares
Unparseable(ev) ==
    IF ev.isBase64Encoded
    THEN \/ ev.body.k = "b64" /\ ev.body.text = GarbageText
         \/ ev.body.k = "plain" /\ ev.body.text \notin { EmptyText, EmptyObjectText }
    ELSE \/ ev.body.k = "plain" /\ ev.body.text = GarbageText
         \/ ev.body.k = "b64"

\* C7: ingest of a body that cannot be parsed as JSON fails with a decode
\* error (json.JSONDecodeError when the text reached the parser), never
\* yields a 200 response and issues no sink call.
C7_MalformedBodyFails ==
    (pc # "idle" /\ Unparseable(event)) =>
      /\ pc = "raised"
      /\ response.kind = "raise"
      /\ response.error.type \in DecodeErrors
      /\ (~event.isBase64Encoded => response.error.type = "JSONDecodeError")
      /\ calls = << >>

\* C7 witness: an invocation with a plain non-JSON body has ended.
C7_Witness ==
    /\ event = [body |-> Plain(GarbageText), isBase64Encoded |-> FALSE]
    /\ pc = "raised"

\* events with no body key, an empty body, an object without alerts key or
\* an empty alerts array
NoAlerts(ev) ==
    \/ ev.body = NoBody
    \/ ev.body = Plain(EmptyText)
    \/ /\ ev.body.k = (IF ev.isBase64Encoded THEN "b64" ELSE "plain")
       /\ ev.body.text \in { EmptyObjectText, JsonText(ObjectDoc(Arr(<< >>))) }

\* C8: ingest of an event with no body key, an empty body, a JSON object
\* without alerts key or an empty alerts array returns 200 with ok = true
\* and processed = [] and issues no sink call.
C8_NoAlertsIsSuccess ==
    (pc # "idle" /\ NoAlerts(event)) =>
      /\ pc \in { "for", "returned" }
      /\ alerts = << >>
      /\ calls = << >>
      /\ pc = "returned" => response = Returned(<< >>)

\* C8 witness: an invocation with an empty body has returned.
C8_Witness ==
    /\ event = [body |-> Plain(EmptyText), isBase64Encoded |-> FALSE]
    /\ pc = "returned"

\* the body of the event decodes to an object with an alerts array
HoldsAlerts(ev) ==
    /\ ev.body.k = (IF ev.isBase64Encoded THEN "b64" ELSE "plain")
    /\ ev.body.text.k = "json"
    /\ ev.body.text.doc.k = "object"
    /\ ev.body.text.doc.alerts.t = "arr"

\* C9: when the body decodes and every sink call succeeds, ingest returns
\* 200 with ok = true and a processed list with one {incident_id,
\* alertname} entry per input alert, in input order, and every sink has
\* been called once per alert.
C9_AllProcessed ==
    (Terminal /\ HoldsAlerts(event) /\ \A j \in CallIdx : calls[j].outcome = "ok") =>
      LET input == event.body.text.doc.alerts.items
      IN  /\ pc = "returned"
          /\ response.kind = "return"
          /\ response.statusCode = 200
          /\ response.body.doc.ok = TRUE
          /\ Len(response.body.doc.processed) = Len(input)
          /\ \A i \in 1..Len(input) :
                /\ response.body.doc.processed[i].alertname =
                     Get(Get(input[i].labels, EmptyLabels).alertname, Str("UnknownAlert"))
                /\ \A s \in Sinks :
                      Cardinality({ m \in CallIdx : calls[m].sink = s /\ calls[m].alert = i }) = 1
          /\ \A s \in Sinks :
                Cardinality({ m \in CallIdx : calls[m].sink = s }) = Len(input)

\* every place of a sink call that holds the incident_id
IdsIn(c) ==
    CASE c.sink = "put_item" -> { c.arg.Item.incident_id, c.arg.Item.payload.incident_id }
      [] c.sink = "put_events" -> { c.arg.Entries[1].Detail.doc.incident_id }
      [] c.sink = "publish" -> { c.arg.Message.doc.incident_id }
      [] c.sink = "start_execution" -> { c.arg.input.doc.incident_id }

\* the incident ids of the alert at position i of the batch
IdsOfAlert(i) ==
    UNION { IdsIn(calls[m]) : m \in { n \in CallIdx : calls[n].alert = i } }
    \cup { results[n].incident_id : n \in { r \in 1..Len(results) : r = i } }

\* C10: no two incidents share an incident_id, within a batch (also when
\* it holds the same raw alert twice) or across invocations, and the
\* storage record, the bus event, the notification body, the workflow
\* input and the processed entry of an incident carry the same id.
C10_IncidentIdUniqueJoinKey ==
    /\ \A i \in 1..Len(alerts) : Cardinality(IdsOfAlert(i)) <= 1
    /\ \A i, j \in 1..Len(alerts) : i # j => IdsOfAlert(i) \cap IdsOfAlert(j) = {}
    /\ \A i \in 1..Len(alerts) : IdsOfAlert(i) \cap PriorIds = {}
    /\ response.kind = "return" =>
         \A i \in 1..Len(results) : response.body.doc.processed[i].incident_id \in IdsOfAlert(i)

\* C10 witness: a second invocation processed a batch that holds the same
\* raw alert twice, after a first one that drew identifiers.
C10_Witness ==
    /\ invocations = 2
    /\ drawnBefore
    /\ pc = "returned"
    /\ Len(results) = 2
    /\ Len(calls) = 8
    /\ alerts[1] = alerts[2]

\* the field of a dict, or the default when the dict lacks the field
OrDefault(field, default) == IF field.t = "absent" THEN default ELSE field

\* C11: normalization defaults each missing field on its own (alertname
\* "UnknownAlert", severity "ticket", service "unknown", status "firing"),
\* copies a field that is present unchanged, and copies labels and
\* annotations as they are into the incident.
C11_DefaultsPerField ==
    (pc \in Sinks \/ pc = "append") =>
      LET a == alerts[idx]
          labels == OrDefault(a.labels, [t |-> "obj", alertname |-> Absent,
                                         severity |-> Absent, service |-> Absent])
      IN  /\ normalized.alertname = OrDefault(labels.alertname, Str("UnknownAlert"))
          /\ normalized.severity = OrDefault(labels.severity, Str("ticket"))
          /\ normalized.service = OrDefault(labels.service, Str("unknown"))
          /\ normalized.status = OrDefault(a.status, Str("firing"))
          /\ normalized.labels = labels
          /\ normalized.annotations = OrDefault(a.annotations, [t |-> "obj", description |-> Absent])

\* C11 witness: an alert with an alertname and a severity but no service
\* label has been normalized.
C11_Witness ==
    /\ pc = "put_item"
    /\ normalized.alertname = Str("CustomAlert")
    /\ normalized.service = Str("unknown")
    /\ normalized.status = Str("resolved")

\* C12: normalization never fails: whatever fields a raw alert has or
\* lacks and whatever their values, no ingest call fails in the
\* normalization of an alert (handler.py lines 28-33 and the subject
\* formatting at line 66).
C12_NormalizationTotal ==
    response.kind = "raise" =>
      ~(response.error.type = "AttributeError" /\ "line" \in DOMAIN response.error)

\* ------------------------------------------------ remediation function
RunbookTerminal == runbookPc \in { "returned", "raised" }

\* the handler got past its configuration check and resolved an action
Resolved == action # NoAction

\* the override the event carries: annotations.runbook_action, if any
OverrideOf(ev) ==
    IF ev.annotations.t = "obj" THEN ev.annotations.runbook_action ELSE Absent

\* the alert name the event carries, "UnknownAlert" when it has none
NameOf(ev) == OrDefault(ev.alertname, Str("UnknownAlert"))

\* the calls that change something: the audit write and the three patches
Mutating == { "put_parameter", "patch_env", "restart", "scale" }
MutatingCalls == SelectSeq(externalCalls, LAMBDA c : c.op \in Mutating)
OpsOf(cs) == [ i \in DOMAIN cs |-> cs[i].op ]

\* C13: with no override, the resolved action depends on the alert name
\* alone: degrade_or_scale for CheckoutHighLatencyP95, CheckoutHighErrorRate
\* and CheckoutSLOBurnFast, restart for CheckoutDown, notify_only for
\* every other name, a missing alert name counting as "UnknownAlert".
C13_DefaultRouting ==
    (Resolved /\ OverrideOf(runbookEvent) = Absent) =>
      action = CASE NameOf(runbookEvent).v \in { "CheckoutHighLatencyP95",
                                                 "CheckoutHighErrorRate",
                                                 "CheckoutSLOBurnFast" } -> Str("degrade_or_scale")
                 [] NameOf(runbookEvent).v = "CheckoutDown" -> Str("restart")
                 [] OTHER -> Str("notify_only")

\* C13 witness: a burn-rate alert without annotations has been resolved
\* and its remediation has returned.
C13_Witness ==
    /\ runbookPc = "returned"
    /\ runbookEvent.alertname = Str("CheckoutSLOBurnFast")
    /\ runbookEvent.annotations = Absent
    /\ runbookResponse.result.action = Str("degrade_or_scale")

\* C14: whenever the annotations of the event hold a runbook_action that
\* is a string, the empty string and unrecognized values included, the
\* resolved action is that string.
C14_OverrideVerbatim ==
    (Resolved /\ OverrideOf(runbookEvent).t = "str") => action = OverrideOf(runbookEvent)

\* C15: when the resolved action is notify_only, the call makes no
\* external call at all and returns a result that holds the action, the
\* alert name and the severity and nothing else.
C15_NotifyOnlyNoCalls ==
    (Resolved /\ action = Str("notify_only")) =>
      /\ externalCalls = << >>
      /\ runbookPc = "returned"
      /\ runbookResponse = ReturnedResult([ action |-> Str("notify_only"),
                                            alertname |-> NameOf(runbookEvent),
                                            severity |-> OrDefault(runbookEvent.severity,
                                                                   Str("ticket")) ])

\* C15 witness: an alert that would be restarted by its name has been
\* overridden to notify_only and the call has returned.
C15_Witness ==
    /\ runbookPc = "returned"
    /\ runbookEvent.alertname = Str("CheckoutDown")
    /\ action = Str("notify_only")

\* the five actions the specification recognizes
Recognized == { "degrade", "restart", "scale", "degrade_or_scale", "notify_only" }

\* C16: with a cluster configured, a call whose override is a string
\* outside the five recognized actions makes no mutating call and ends
\* with the unknown-action error that names the value, never with a
\* result.
C16_UnknownActionRejected ==
    ( /\ runbookPc # "idle"
      /\ environ.CLUSTER_NAME \notin { Absent, Str("") }
      /\ OverrideOf(runbookEvent).t = "str"
      /\ OverrideOf(runbookEvent).v \notin Recognized ) =>
        /\ MutatingCalls = << >>
        /\ RunbookTerminal =>
             runbookResponse = Raised([ type |-> "RuntimeError",
                                        message |-> "Unknown action: "
                                                    \o OverrideOf(runbookEvent).v ])

\* C17: the cluster is looked up and a bearer credential is minted only
\* when the resolved action is degrade, restart, scale or degrade_or_scale.
C17_ConnectOnlyWhenActing ==
    (\E i \in DOMAIN externalCalls : externalCalls[i].op \in { "describe_cluster", "presign" })
      => action.v \in { "degrade", "restart", "scale", "degrade_or_scale" }

\* C18: when CLUSTER_NAME is unset or empty, every call, whatever its
\* action, fails with the missing-configuration error before any
\* external call and returns no result.
C18_MissingClusterFails ==
    (runbookPc # "idle" /\ environ.CLUSTER_NAME \in { Absent, Str("") }) =>
      /\ runbookPc = "raised"
      /\ runbookResponse = Raised([ type |-> "RuntimeError",
                                    message |-> "CLUSTER_NAME env var is required" ])
      /\ externalCalls = << >>

\* C18 witness: a function with an empty cluster name has been called with
\* an event that asks for notify_only, and the call has failed.
C18_Witness ==
    /\ runbookPc = "raised"
    /\ environ.CLUSTER_NAME = Str("")
    /\ OverrideOf(runbookEvent) = Str("notify_only")

\* C19: a degrade_or_scale that returns has made exactly four mutating
\* calls, in this order: the audit write of "true", the env patch setting
\* DEGRADED_MODE to "true", the restart patch, the scale patch to
\* desired_replicas (4 when the event has none); its result has
\* degraded = true and scaled_to equal to the replica count patched.
C19_DegradeOrScaleSteps ==
    (runbookPc = "returned" /\ action = Str("degrade_or_scale")) =>
      LET m == MutatingCalls
          wanted == OrDefault(IF runbookEvent.annotations.t = "obj"
                              THEN runbookEvent.annotations.desired_replicas
                              ELSE Absent, Str("4"))
      IN  /\ OpsOf(m) = << "put_parameter", "patch_env", "restart", "scale" >>
          /\ \A i \in DOMAIN m : m[i].outcome = "ok"
          /\ m[1].arg.Value = "true"
          /\ m[2].arg.patch.env = [name |-> "DEGRADED_MODE", value |-> "true"]
          /\ Numerals[m[4].arg.patch.replicas] = wanted.v
          /\ runbookResponse.result.degraded = TRUE
          /\ runbookResponse.result.scaled_to = m[4].arg.patch.replicas

\* C19 witness: a latency alert without annotations has been degraded and
\* scaled to the default of four replicas.
C19_Witness ==
    /\ runbookPc = "returned"
    /\ runbookEvent.alertname = Str("CheckoutHighLatencyP95")
    /\ runbookEvent.annotations = Absent
    /\ Len(externalCalls) = 6
    /\ runbookResponse.result.scaled_to = 4

\* C20: a degrade that returns has made exactly three mutating calls, in
\* this order: the audit write to the configured parameter name, the env
\* patch setting DEGRADED_MODE to "true", the restart patch; it has made
\* no scale patch, and its result has degraded = true and no scaled_to.
C20_DegradeSteps ==
    (runbookPc = "returned" /\ action = Str("degrade")) =>
      LET m == MutatingCalls
      IN  /\ OpsOf(m) = << "put_parameter", "patch_env", "restart" >>
          /\ \A i \in DOMAIN m : m[i].outcome = "ok"
          /\ m[1].arg.Name = OrDefault(environ.DEGRADED_PARAM, Str("/checkout/degraded_mode"))
          /\ m[1].arg.Value = "true"
          /\ m[2].arg.patch.env = [name |-> "DEGRADED_MODE", value |-> "true"]
          /\ runbookResponse.result.degraded = TRUE
          /\ "scaled_to" \notin DOMAIN runbookResponse.result

\* C20 witness: a function configured with its own parameter name has
\* degraded the deployment on an explicit override.
C20_Witness ==
    /\ runbookPc = "returned"
    /\ action = Str("degrade")
    /\ environ.DEGRADED_PARAM = Str("/test/degraded_mode")
    /\ Len(externalCalls) = 5

\* the value of annotations.desired_replicas, "4" when the event has none
WantedReplicas(ev) ==
    OrDefault(IF ev.annotations.t = "obj" THEN ev.annotations.desired_replicas ELSE Absent,
              Str("4"))

\* C21: a scale that returns has made exactly one mutating call, the
\* replica patch to the integer value of desired_replicas (4 when the
\* event has none), and its result holds the action and the replica count
\* it scaled to.
C21_ScaleResult ==
    (runbookPc = "returned" /\ action = Str("scale")) =>
      LET m == MutatingCalls
      IN  /\ OpsOf(m) = << "scale" >>
          /\ Numerals[m[1].arg.patch.replicas] = WantedReplicas(runbookEvent).v
          /\ runbookResponse.result.action = Str("scale")
          /\ "scaled_to" \in DOMAIN runbookResponse.result
          /\ runbookResponse.result.scaled_to = m[1].arg.patch.replicas

\* C22: a restart that returns has made exactly one mutating call, the
\* restart patch: no audit write, no env patch, no replica patch; its
\* result has neither a degraded nor a scaled_to field.
C22_RestartOnly ==
    (runbookPc = "returned" /\ action = Str("restart")) =>
      /\ OpsOf(MutatingCalls) = << "restart" >>
      /\ MutatingCalls[1].outcome = "ok"
      /\ "degraded" \notin DOMAIN runbookResponse.result
      /\ "scaled_to" \notin DOMAIN runbookResponse.result

\* C22 witness: a CheckoutDown alert has been restarted.
C22_Witness ==
    /\ runbookPc = "returned"
    /\ runbookEvent.alertname = Str("CheckoutDown")
    /\ runbookEvent.annotations = Absent
    /\ Len(externalCalls) = 3
    /\ deployment.restartedAt # << >>

\* the calls of the current attempt that were answered with success
Succeeded(op) == \E i \in DOMAIN externalCalls :
                   externalCalls[i].op = op /\ externalCalls[i].outcome = "ok"

\* C25: when a call of an action's sequence fails, the attempt fails with
\* the error of that call, no later call is issued, no result is returned,
\* and what the earlier calls of the attempt did stays done.
C25_FailureStopsAttempt ==
    \A i \in DOMAIN externalCalls :
      externalCalls[i].outcome # "ok" =>
        /\ i = Len(externalCalls)
        /\ runbookPc = "raised"
        /\ runbookResponse.kind = "raise"
        /\ IF externalCalls[i].outcome = "status"
           THEN /\ runbookResponse.error.type = "RuntimeError"
                /\ runbookResponse.error.status_code \notin 200..299
                /\ runbookResponse.error.url = externalCalls[i].arg.url
           ELSE runbookResponse.error = [type |-> "CallError", op |-> externalCalls[i].op]
        /\ Succeeded("put_parameter") => ssm = "true"
        /\ Succeeded("patch_env") => deployment.env.DEGRADED_MODE = "true"
        /\ \A j \in 1..(i - 1) :
             externalCalls[j].op = "restart" =>
               deployment.restartedAt = << externalCalls[j].arg.patch.restartedAt >>

\* C25 witness: the restart patch of a degrade was refused after the audit
\* write and the env patch had succeeded.
C25_Witness ==
    /\ runbookPc = "raised"
    /\ OpsOf(MutatingCalls) = << "put_parameter", "patch_env", "restart" >>
    /\ externalCalls[Len(externalCalls)].outcome = "status"
    /\ ssm = "true"
    /\ deployment.env.DEGRADED_MODE = "true"

\* C26: the audit write and the env patch are not atomic: once the audit
\* write of an attempt has succeeded the parameter says "true" whether or
\* not the env patch follows, and an attempt that has failed changes
\* neither the parameter nor the deployment any more.
C26_AuditNotAtomic ==
    /\ [](Succeeded("put_parameter") => ssm = "true")
    /\ [][runbookPc = "raised" => UNCHANGED << ssm, deployment >>]_vars

\* C26 witness: the env patch failed after the audit write; the parameter
\* says "true" and DEGRADED_MODE has not been set.
C26_Witness ==
    /\ runbookPc = "raised"
    /\ OpsOf(MutatingCalls) = << "put_parameter", "patch_env" >>
    /\ ssm = "true"
    /\ deployment.env.DEGRADED_MODE = NoValue

\* the URL of the configured deployment
ConfiguredUrl ==
    [ namespace |-> OrDefault(environ.TARGET_NAMESPACE, Str("apps")),
      deployment |-> OrDefault(environ.TARGET_DEPLOYMENT, Str("checkout")) ]

\* what each patch sends
PatchShape(c) ==
    CASE c.op = "patch_env" ->
           /\ c.arg.content_type = "application/strategic-merge-patch+json"
           /\ c.arg.patch.container = ConfiguredUrl.deployment
           /\ DOMAIN c.arg.patch = { "container", "env" }
           /\ c.arg.patch.env.name = "DEGRADED_MODE"
      [] c.op = "restart" ->
           /\ c.arg.content_type = "application/strategic-merge-patch+json"
           /\ DOMAIN c.arg.patch = { "restartedAt" }
      [] c.op = "scale" ->
           /\ c.arg.content_type = "application/merge-patch+json"
           /\ DOMAIN c.arg.patch = { "replicas" }
      [] OTHER -> TRUE

\* what each patch may change of the deployment
PatchFrame(c) ==
    /\ ssm' = ssm
    /\ c.op # "patch_env" => deployment'.env = deployment.env
    /\ c.op = "patch_env" => deployment'.env.PORT = deployment.env.PORT
    /\ c.op # "restart" => deployment'.restartedAt = deployment.restartedAt
    /\ c.op # "scale" => deployment'.replicas = deployment.replicas

\* C28: each patch changes only its own part of the deployment: the env
\* patch and the restart patch are strategic-merge patches, the first of
\* the one env variable of the container named after the deployment, the
\* second of the restartedAt annotation; the scale patch is a merge patch
\* of spec.replicas; all three go to the URL of the configured namespace
\* and deployment.
C28_PatchScopes ==
    /\ [](\A i \in DOMAIN externalCalls :
            LET c == externalCalls[i]
            IN  c.op \in { "patch_env", "restart", "scale" } =>
                  /\ c.arg.method = "PATCH"
                  /\ c.arg.url = ConfiguredUrl
                  /\ PatchShape(c))
    /\ [][ Len(externalCalls') = Len(externalCalls) + 1 =>
             LET c == externalCalls'[Len(externalCalls')]
             IN  c.op \in { "patch_env", "restart", "scale" } => PatchFrame(c) ]_vars

\* C28 witness: the three patches have been sent to a deployment
\* configured by the environment, and the replica count has changed.
C28_Witness ==
    /\ OpsOf(MutatingCalls) = << "put_parameter", "patch_env", "restart", "scale" >>
    /\ environ.TARGET_DEPLOYMENT = Str("test-deployment")
    /\ deployment.replicas = 6
    /\ deployment.env.DEGRADED_MODE = "true"

\* C27: for every status s and body b the control-plane client gets: when
\* s is outside 200..299 the request fails with an error carrying s and
\* the first 500 characters of b; when s is inside 200..299 it returns the
\* parsed body, or an empty object when b is empty.
C27_ClientStatusContract ==
    k8sCall # NoCall =>
      LET s == k8sCall.resp.status_code
          b == k8sCall.resp.text
          res == k8sCall.result
      IN  IF s \notin 200..299
          THEN /\ res.kind = "raise"
               /\ res.error.status_code = s
               /\ res.error.text.runs = TakeRuns(b.runs, 500)
          ELSE /\ TextLen(b) = 0 => res = [kind |-> "return", value |-> [t |-> "obj"]]
               /\ (TextLen(b) > 0 /\ b.doc # NotJson) =>
                    res = [kind |-> "return", value |-> b.doc]

\* ----------------------------------------------------- workflow as caller
\* an earlier run of the handler is on record
HasFirstRun == firstRun.kind = "run"

\* C23: executing a remediation action a second time with the same input
\* leaves the deployment (env variables, pod-template annotations, replica
\* count) and the audit parameter as the first execution left them.
C23_ReexecutionIdempotent ==
    ( /\ HasFirstRun
      /\ firstRun.response.kind = "return"
      /\ firstRun.event = runbookEvent
      /\ attempts = 1
      /\ runbookPc = "returned" ) => World = startWorld

\* what a single execution without failure makes of the audit parameter,
\* the DEGRADED_MODE flag and the replica count
FailureFree(w, act, ev) ==
    [ ssm |-> IF act.v \in { "degrade", "degrade_or_scale" } THEN "true" ELSE w.ssm,
      degraded_mode |-> IF act.v \in { "degrade", "degrade_or_scale" }
                        THEN "true" ELSE w.deployment.env.DEGRADED_MODE,
      replicas |-> IF act.v \in { "scale", "degrade_or_scale" }
                   THEN CHOOSE n \in DOMAIN Numerals : Numerals[n] = WantedReplicas(ev).v
                   ELSE w.deployment.replicas ]

\* the calls a whole execution of an action makes, in order
WholeRun(act) ==
    CASE act.v = "degrade" ->
           << "describe_cluster", "presign", "put_parameter", "patch_env", "restart" >>
      [] act.v = "restart" -> << "describe_cluster", "presign", "restart" >>
      [] act.v = "scale" -> << "describe_cluster", "presign", "scale" >>
      [] act.v = "degrade_or_scale" ->
           << "describe_cluster", "presign", "put_parameter", "patch_env", "restart", "scale" >>
      [] OTHER -> << >>

\* C24: every retry of the workflow runs the whole action again from its
\* first step with the same input, never resuming after the last step that
\* succeeded; an attempt that succeeds has made every call of the action
\* in order and leaves the audit parameter, the DEGRADED_MODE flag and the
\* replica count as a single execution without failure would have.
C24_RetryFromScratch ==
    /\ []( (attempts >= 1 /\ runbookPc = "returned") =>
             /\ OpsOf(externalCalls) = WholeRun(action)
             /\ [ ssm |-> ssm, degraded_mode |-> deployment.env.DEGRADED_MODE,
                  replicas |-> deployment.replicas ]
                  = FailureFree(startWorld, action, runbookEvent) )
    /\ [][ (attempts >= 1 /\ attempts' = attempts + 1) =>
             /\ runbookEvent' = runbookEvent
             /\ externalCalls' = << >>
             /\ step' = 1
             /\ runbookPc' \in { "connect", "returned", "raised" }
             /\ runbookPc' = "raised" => environ.CLUSTER_NAME \in { Absent, Str("") }
             /\ runbookPc' = "returned" => action' = Str("notify_only") ]_vars

\* C24 witness: a degrade_or_scale has succeeded on its third attempt.
C24_Witness ==
    /\ runbookPc = "returned"
    /\ attempts = 3
    /\ action = Str("degrade_or_scale")
    /\ firstRun = NoRun

\* a call without the reading of the clock it may carry
Timeless(c) ==
    IF c.op = "restart"
    THEN [ op |-> c.op, method |-> c.arg.method, url |-> c.arg.url,
           content_type |-> c.arg.content_type ]
    ELSE [ op |-> c.op, arg |-> c.arg ]

IncidentFields ==
    { "incident_id", "timestamp", "status", "severity", "service", "alertname",
      "labels", "annotations" }

\* the incident a sink call carries, none for the notification
IncidentOf(c) ==
    CASE c.sink = "put_item" -> c.arg.Item.payload
      [] c.sink = "put_events" -> c.arg.Entries[1].Detail.doc
      [] c.sink = "start_execution" -> c.arg.input.doc

\* C30: for each incident, the payload of the storage record, the detail
\* of the bus event and the input of the workflow are the same normalized
\* incident, and the storage record has the key (incident_id, timestamp)
\* and the index fields service, alertname, severity and status of that
\* incident.
C30_SameIncidentEverywhere ==
    /\ \A i, j \in CallIdx :
         ( /\ calls[i].alert = calls[j].alert
           /\ { calls[i].sink, calls[j].sink } \subseteq { "put_item", "put_events", "start_execution" } )
           => /\ IncidentOf(calls[i]) = IncidentOf(calls[j])
              /\ IncidentFields \subseteq DOMAIN IncidentOf(calls[i])
    /\ \A i \in CallIdx :
         calls[i].sink = "put_item" =>
           LET item == calls[i].arg.Item
               n == item.payload
               a == alerts[calls[i].alert]
           IN  /\ << item.incident_id, item.ts >> = << n.incident_id, n.timestamp >>
               /\ item.service = n.service
               /\ item.alertname = n.alertname
               /\ item.severity = n.severity
               /\ item.status = n.status
               /\ n.timestamp = now
               /\ n.status = OrDefault(a.status, Str("firing"))
               /\ n.labels = OrDefault(a.labels, EmptyLabels)

\* C30 witness: an incident with defaulted fields has been stored, put on
\* the bus and handed to the workflow.
C30_Witness ==
    /\ Len(calls) >= 4
    /\ calls[4].sink = "start_execution"
    /\ calls[4].outcome = "ok"
    /\ calls[1].arg.Item.alertname = Str("UnknownAlert")
    /\ calls[1].arg.Item.payload.labels = EmptyLabels

\* an incident without the two fields that vary per call
SansIdAndTimestamp(n) == [ f \in DOMAIN n \ { "incident_id", "timestamp" } |-> n[f] ]

\* the incidents the current invocation has built so far, each with the
\* position of its raw alert
Built ==
    { [alert |-> calls[i].alert, incident |-> calls[i].arg.Item.payload] :
        i \in { k \in CallIdx : calls[k].sink = "put_item" } }
      \cup ( IF pc \in Sinks \cup { "append" }
             THEN { [alert |-> idx, incident |-> normalized] } ELSE {} )

OutcomesOf(cs) == [ i \in DOMAIN cs |-> cs[i].outcome ]

C33_ResultEchoesEvent ==
    runbookPc = "returned" =>
      LET res == runbookResponse.result
          ev == runbookEvent
      IN  /\ { "action", "alertname", "severity" } \subseteq DOMAIN res
          /\ res.action = action
          /\ res.alertname = OrDefault(ev.alertname, Str("UnknownAlert"))
          /\ res.severity = OrDefault(ev.severity, Str("ticket"))
          /\ ev.annotations \in { Absent, Null } =>
                /\ res.action =
                     CASE res.alertname.v \in { "CheckoutHighLatencyP95",
                                                "CheckoutHighErrorRate",
                                                "CheckoutSLOBurnFast" } -> Str("degrade_or_scale")
                       [] res.alertname.v = "CheckoutDown" -> Str("restart")
                       [] OTHER -> Str("notify_only")
                /\ "scaled_to" \in DOMAIN res => res.scaled_to = 4

\* C33 witness: an event without alert name and severity and with null
\* annotations has returned its result.
C33_Witness ==
    /\ runbookPc = "returned"
    /\ runbookEvent.annotations = Null
    /\ runbookEvent.alertname = Absent
    /\ runbookEvent.severity = Absent
    /\ runbookResponse.result.alertname = Str("UnknownAlert")
    /\ runbookResponse.result.severity = Str("ticket")
    /\ runbookResponse.result.action = Str("notify_only")

\* --------------------------------------------------------- checkout service
\* the threads that are between the entry of checkout() and the end of its
\* finally clause
Handling == { t \in Threads : handlerPc[t] \in { "chaos", "sleep", "decide", "finally" } }

\* C34: when the service runs with degraded mode set, every /checkout
\* request skips the injected latency and the injected error: it returns
\* 200 with status ok and degraded = true whatever ERROR_RATE and
\* LATENCY_MS are, and the failure counter is never incremented.
C34_DegradedSkipsFaults ==
    ( /\ checkoutEnv.DEGRADED_MODE.t = "str"
      /\ checkoutEnv.DEGRADED_MODE.v \in { "true", "True", "TRUE" } ) =>
        /\ metrics.CHECKOUT_FAIL = 0
        /\ metrics.REQS_500 = 0
        /\ \A t \in Threads :
             /\ ~frames[t].slept
             /\ handlerPc[t] \in { "finally", "done" } =>
                  frames[t].pending = [ kind |-> "return", status_code |-> 200,
                                        json |-> [status |-> "ok", degraded |-> TRUE] ]

\* C34 witness: a degraded service configured with an error rate of 1.0
\* and a latency of 200 ms has answered three requests.
C34_Witness ==
    /\ checkoutEnv = CheckoutEnviron(Str("true"), Str("1.0"), Str("200"), Absent)
    /\ metrics.CHECKOUT_OK = 3
    /\ \E t \in Threads : handlerPc[t] = "done"

\* C39: under every interleaving of concurrent requests the in-flight
\* gauge equals the number of /checkout requests being handled; it goes up
\* by one on entry and down by one on every way out (success, injected
\* failure, exception), is never negative, and is at its initial value
\* once all requests have completed.
C39_InflightGauge ==
    /\ metrics.INFLIGHT = Cardinality(Handling)
    /\ metrics.INFLIGHT >= 0
    /\ Handling = {} => metrics.INFLIGHT = NoMetrics.INFLIGHT
    /\ metrics.LAT + metrics.INFLIGHT = begun

\* C39 witness: after an earlier request has completed, two requests are
\* in flight at once, one on its way out with the injected failure and one
\* with an exception.
C39_Witness ==
    /\ metrics.LAT >= 1
    /\ metrics.INFLIGHT = 2
    /\ \E t, u \in Threads :
         /\ handlerPc[t] = "finally" /\ frames[t].pending.kind = "exception"
         /\ handlerPc[u] = "finally" /\ frames[u].code = 500

\* ------------------------------------------------------- the notification
\* a severity in upper case
UpperCase(v) ==
    CASE v = "critical" -> "CRITICAL"
      [] v = "ticket" -> "TICKET"

\* the incident stored for the alert a sink call belongs to
StoredFor(c) ==
    LET i == CHOOSE k \in CallIdx : calls[k].sink = "put_item" /\ calls[k].alert = c.alert
    IN  calls[i].arg.Item.payload

\* C35: the notification published for an incident has the subject
\* "[" + upper-cased severity + "] " + service + " - " + alertname +
\* " (" + status + ")", and its body is the prefix of the pretty-printed
\* incident of length at most 240000 characters, the whole text when that
\* is shorter.
C35_NotificationFormat ==
    \A i \in CallIdx :
      calls[i].sink = "publish" =>
        LET n == StoredFor(calls[i])
            whole == PrettyLen(n)
            msg == calls[i].arg.Message
        IN  /\ calls[i].arg.Subject =
                 "[" \o UpperCase(n.severity.v) \o "] " \o n.service.v \o " - "
                     \o n.alertname.v \o " (" \o n.status.v \o ")"
            /\ msg.doc = n
            /\ msg.indent = 2
            /\ msg.len = IF whole <= 240000 THEN whole ELSE 240000
            /\ msg.k = IF whole <= 240000 THEN "json" ELSE "prefix"

\* C35 witness: an incident whose pretty-printed text has 240001
\* characters has been published, cut to 240000.
C35_Witness ==
    \E i \in CallIdx :
      /\ calls[i].sink = "publish"
      /\ calls[i].outcome = "ok"
      /\ calls[i].arg.Subject = "[CRITICAL] checkout - CheckoutHighErrorRate (firing)"
      /\ PrettyLen(StoredFor(calls[i])) = 240001
      /\ calls[i].arg.Message.len = 240000

\* ------------------------------------------------- degradation and audit
\* C36: after any sequence of remediation calls, whenever the DEGRADED_MODE
\* flag of the deployment has been set to "true" the audit parameter has
\* been written with "true" before: the env patch of an attempt is never
\* issued before the audit write of that attempt has returned.
C36_AuditBeforeEnvPatch ==
    /\ deployment.env.DEGRADED_MODE = "true" => ssm = "true"
    /\ \A i \in DOMAIN externalCalls :
         externalCalls[i].op = "patch_env" =>
           \E j \in 1..(i - 1) :
             /\ externalCalls[j].op = "put_parameter"
             /\ externalCalls[j].outcome = "ok"
             /\ externalCalls[j].arg.Value = "true"

\* C36 witness: in a later call, after the deployment has been degraded,
\* the env patch broke off although it had reached the cluster.
C36_Witness ==
    /\ runbookPc = "raised"
    /\ deployment.restartedAt # << >>
    /\ deployment.env.DEGRADED_MODE = "true"
    /\ ssm = "true"
    /\ externalCalls[Len(externalCalls)].op = "patch_env"
    /\ externalCalls[Len(externalCalls)].outcome = "raise"

\* C37: degradation is one-way: no remediation action writes a value other
\* than "true" to the audit parameter or to the DEGRADED_MODE flag, so
\* each of them, once "true", stays "true" through every later call.
C37_DegradationOneWay ==
    [][ /\ ssm' # ssm => ssm' = "true"
        /\ deployment'.env.DEGRADED_MODE # deployment.env.DEGRADED_MODE =>
             deployment'.env.DEGRADED_MODE = "true"
        /\ ssm = "true" => ssm' = "true"
        /\ deployment.env.DEGRADED_MODE = "true" => deployment'.env.DEGRADED_MODE = "true"
        /\ \A i \in DOMAIN externalCalls' :
             /\ externalCalls'[i].op = "put_parameter" => externalCalls'[i].arg.Value = "true"
             /\ externalCalls'[i].op = "patch_env" =>
                  externalCalls'[i].arg.patch.env.value = "true" ]_vars

\* C37 witness: a degraded deployment has since been restarted and scaled
\* by a call that does not degrade, and is still degraded.
C37_Witness ==
    /\ runbookPc = "returned"
    /\ action = Str("scale")
    /\ deployment.replicas = 6
    /\ deployment.env.DEGRADED_MODE = "true"
    /\ ssm = "true"

\* desired_replicas of the event is no integer
BadReplicas(ev) ==
    LET wanted == WantedReplicas(ev)
    IN  ~(wanted.t = "str" /\ \E i \in DOMAIN Numerals : Numerals[i] = wanted.v)

\* C38: a remediation call that fails because annotations.desired_replicas
\* is not an integer makes no mutating call before it fails, for scale as
\* well as for degrade_or_scale: no audit write, no env patch, no restart
\* patch, no scale patch.
C38_BadReplicasNoMutation ==
    ( /\ runbookPc = "raised"
      /\ action \in { Str("scale"), Str("degrade_or_scale") }
      /\ BadReplicas(runbookEvent)
      /\ runbookResponse.error = [type |-> "ValueError"] )
      => MutatingCalls = << >>

====
